---- MODULE Spec2Model ----
(***************************************************************************)
(* FLAC compression-level estimation of flac-convert-tool.                 *)
(*                                                                         *)
(* Two implementations are modelled side by side, as in the source:        *)
(*   D_...  src/flac_level_detection.py (used by the batch converter)      *)
(*   A_...  src/flac_analyzer.py        (stand-alone analysis tool)        *)
(*                                                                         *)
(* Arithmetic: Python floats are modelled as exact rationals <<n, d>>      *)
(* (d > 0, lowest terms).  Every ratio the model uses is k/1000 and is     *)
(* compared with the table's two-decimal literals, for which the float     *)
(* comparison and the exact comparison agree.  Computed floats carry a     *)
(* rounding error in the last places, so a value stated here as 0.45 is    *)
(* 0.45 up to that error, and two computed centralities that are equal     *)
(* exactly may compare either way as floats: the estimators take that      *)
(* outcome as the parameter round_up, chosen by the environment.           *)
(* A value that is not a number (text left in the dictionary by the        *)
(* parser, a threshold of the wrong type) is the pair NaN == <<0, 0>>;     *)
(* using it in arithmetic or in a comparison is Python's TypeError.        *)
(*                                                                         *)
(* Optional values: <<>> is "key absent" / None, <<v>> is a present value. *)
(*                                                                         *)
(* The batch converter around them is modelled as far as it meets the      *)
(* estimator: convert_file / convert_to_flac of src/file_converter.py, the *)
(* tracking file of src/db_handler.py and the thread pool of               *)
(* src/flac_converter.py.                                                  *)
(***************************************************************************)
EXTENDS Integers, Sequences, FiniteSets, TLC

----------------------------------------------------------------------------
(* Bounds of the model *)

\* frame sizes reported by metaflac are 10 * (0..MaxFrameSteps) bytes
MaxFrameSteps == 2
\* ratios given to the estimators directly are (470 + 5 * i) / 1000, i in 0..MaxRatioSteps
MaxRatioSteps == 112
\* worker threads of the pool, each with one file
MaxWorkers == 2

----------------------------------------------------------------------------
(* Optional values and exact rational arithmetic *)

None == <<>>
Some(v) == <<v>>
IsSome(o) == o # <<>>
Get(o) == o[1]

NaN == <<0, 0>>
IsNum(q) == q[2] > 0

Abs(n) == IF n < 0 THEN -n ELSE n

RECURSIVE GCD(_, _)
GCD(a, b) == IF b = 0 THEN a ELSE GCD(b, a % b)

Norm(n, d) ==
    LET g == GCD(Abs(n), d)
    IN  <<n \div g, d \div g>>

Q(n, d) == Norm(n, d)
RAdd(a, b) == Norm(a[1] * b[2] + b[1] * a[2], a[2] * b[2])
RSub(a, b) == Norm(a[1] * b[2] - b[1] * a[2], a[2] * b[2])
RMul(a, b) == Norm(a[1] * b[1], a[2] * b[2])
\* a / b for b # 0
RDiv(a, b) == IF b[1] > 0 THEN Norm(a[1] * b[2], a[2] * b[1])
                          ELSE Norm(-(a[1] * b[2]), a[2] * (-b[1]))
RAbs(a) == <<Abs(a[1]), a[2]>>
RLt(a, b) == a[1] * b[2] < b[1] * a[2]
RLe(a, b) == a[1] * b[2] <= b[1] * a[2]
RMin(a, b) == IF RLt(b, a) THEN b ELSE a
RZero == <<0, 1>>
ROne == <<1, 1>>

----------------------------------------------------------------------------
(* Results of the estimators: a (level, confidence) pair, or an exception  *)

Result(level, conf) == [level |-> level, conf |-> conf, exc |-> "none"]
Raise(e) == [level |-> None, conf |-> RZero, exc |-> e]

----------------------------------------------------------------------------
(* src/flac_level_detection.py : estimate_compression_level *)

\* variant: the table upside down, level 0 having the smallest ratios
D_level_ranges_reversed ==
    << <<Q(50, 100), Q(56, 100)>>,
       <<Q(54, 100), Q(58, 100)>>,
       <<Q(56, 100), Q(60, 100)>>,
       <<Q(58, 100), Q(63, 100)>>,
       <<Q(60, 100), Q(65, 100)>>,
       <<Q(62, 100), Q(67, 100)>>,
       <<Q(65, 100), Q(70, 100)>>,
       <<Q(67, 100), Q(75, 100)>>,
       <<Q(70, 100), Q(100, 100)>> >>

D_level_ranges ==
    << <<Q(70, 100), Q(100, 100)>>,
       <<Q(67, 100), Q(75, 100)>>,
       <<Q(65, 100), Q(70, 100)>>,
       <<Q(62, 100), Q(67, 100)>>,
       <<Q(60, 100), Q(65, 100)>>,
       <<Q(58, 100), Q(63, 100)>>,
       <<Q(56, 100), Q(60, 100)>>,
       <<Q(54, 100), Q(58, 100)>>,
       <<Q(50, 100), Q(56, 100)>> >>

\* level l (0..8) is row l+1 of the table
D_min_ratio(l) == D_level_ranges[l + 1][1]
D_max_ratio(l) == D_level_ranges[l + 1][2]

\* variant: ranges without their upper bound
D_in_range_half_open(ratio, l) == RLe(D_min_ratio(l), ratio) /\ RLt(ratio, D_max_ratio(l))

D_in_range(ratio, l) == RLe(D_min_ratio(l), ratio) /\ RLe(ratio, D_max_ratio(l))

D_centrality(ratio, l) ==
    LET range_size == RSub(D_max_ratio(l), D_min_ratio(l))
    IN  IF RLt(RZero, range_size)
        THEN RSub(ROne, RMul(RAbs(RSub(RDiv(RSub(ratio, D_min_ratio(l)), range_size),
                                       Q(1, 2))),
                             Q(2, 1)))
        ELSE RZero

\* the for loop over enumerate(level_ranges): matches in table order
RECURSIVE D_matches_from(_, _)
D_matches_from(ratio, l) ==
    IF l > 8 THEN <<>>
    ELSE IF D_in_range(ratio, l)
         THEN <<<<l, D_centrality(ratio, l)>>>> \o D_matches_from(ratio, l + 1)
         ELSE D_matches_from(ratio, l + 1)

D_matches(ratio) == D_matches_from(ratio, 0)

\* max(matches, key=lambda m: m[1]): the first element with the largest key.
\* Two centralities that are equal in exact arithmetic are computed from
\* different table rows and their floats may differ in the last place:
\* round_up says that the later one of such a pair came out larger.
RECURSIVE D_max_from(_, _, _, _)
D_max_from(ms, i, best, round_up) ==
    IF i > Len(ms) THEN best
    ELSE IF RLt(best[2], ms[i][2]) \/ (round_up /\ best[2] = ms[i][2])
         THEN D_max_from(ms, i + 1, ms[i], round_up)
         ELSE D_max_from(ms, i + 1, best, round_up)

\* variant: the first match instead of the most central one
D_best_match_first(ms, round_up) == ms[1]

D_best_match(ms, round_up) == D_max_from(ms, 2, ms[1], round_up)

D_boundary_distance(ratio, l) ==
    RMin(RAbs(RSub(ratio, D_min_ratio(l))), RAbs(RSub(ratio, D_max_ratio(l))))

\* min(range(9), key=...): the first level with the smallest key
\* variant: the level with the largest key
RECURSIVE D_min_from_farthest(_, _, _)
D_min_from_farthest(ratio, l, best) ==
    IF l > 8 THEN best
    ELSE IF RLt(D_boundary_distance(ratio, best), D_boundary_distance(ratio, l))
         THEN D_min_from_farthest(ratio, l + 1, l)
         ELSE D_min_from_farthest(ratio, l + 1, best)

RECURSIVE D_min_from(_, _, _)
D_min_from(ratio, l, best) ==
    IF l > 8 THEN best
    ELSE IF RLt(D_boundary_distance(ratio, l), D_boundary_distance(ratio, best))
         THEN D_min_from(ratio, l + 1, l)
         ELSE D_min_from(ratio, l + 1, best)

\* variant: levels numbered from 1
D_closest_level_from_one(ratio) == D_min_from(ratio, 1, 0) + 1

D_closest_level(ratio) == D_min_from(ratio, 1, 0)

\* variant: a size-based guess other than the default level
D_estimate_level_from_file_size_guess(info) == Result(Some(4), Q(1, 10))

D_estimate_level_from_file_size(info) == Result(Some(5), Q(1, 10))

\* variant: the boost without the cap at 1.0
D_boost_uncapped(confidence) == RMul(confidence, Q(12, 10))

D_boost(confidence) == RMin(RMul(confidence, Q(12, 10)), ROne)
\* variant: a subtractive penalty
D_penalty_subtract(confidence) == RSub(confidence, Q(2, 10))

D_penalty(confidence) == RMul(confidence, Q(8, 10))

\* variant: the level alone decides, whatever the block sizes
D_adjust_by_level(level, confidence, fixed_blocksize) ==
    IF level <= 2 THEN D_boost(confidence) ELSE D_penalty(confidence)

D_adjust(level, confidence, fixed_blocksize) ==
    IF fixed_blocksize
    THEN IF level <= 2 THEN D_boost(confidence) ELSE D_penalty(confidence)
    ELSE IF level >= 3 THEN D_boost(confidence) ELSE D_penalty(confidence)

\* variant: only the ratio is required
D_has_required_ratio_only(info) == IsSome(info.compression_ratio)

D_has_required(info) ==
    /\ IsSome(info.compression_ratio)
    /\ IsSome(info.min_blocksize)
    /\ IsSome(info.max_blocksize)

D_estimate_compression_level(info, round_up) ==
    IF info.limited_analysis THEN D_estimate_level_from_file_size(info)
    ELSE IF ~D_has_required(info) THEN Result(Some(5), Q(1, 10))
    ELSE LET ratio == Get(info.compression_ratio)
         IN  IF ~IsNum(ratio) THEN Raise("TypeError")
             ELSE LET ms == D_matches(ratio)
                  IN  IF ms = <<>>
                      THEN Result(Some(D_closest_level(ratio)), Q(5, 10))
                      ELSE LET best == D_best_match(ms, round_up)
                           IN  Result(Some(best[1]),
                                      D_adjust(best[1], best[2],
                                               info.min_blocksize = info.max_blocksize))

----------------------------------------------------------------------------
(* src/flac_analyzer.py : estimate_compression_level *)

A_level_ranges ==
    << <<Q(70, 100), Q(100, 100)>>,
       <<Q(67, 100), Q(75, 100)>>,
       <<Q(65, 100), Q(70, 100)>>,
       <<Q(62, 100), Q(67, 100)>>,
       <<Q(60, 100), Q(65, 100)>>,
       <<Q(58, 100), Q(63, 100)>>,
       <<Q(56, 100), Q(60, 100)>>,
       <<Q(54, 100), Q(58, 100)>>,
       <<Q(50, 100), Q(56, 100)>> >>

\* level l (0..8) is row l+1 of the table
A_min_ratio(l) == A_level_ranges[l + 1][1]
A_max_ratio(l) == A_level_ranges[l + 1][2]

A_in_range(ratio, l) == RLe(A_min_ratio(l), ratio) /\ RLe(ratio, A_max_ratio(l))

A_centrality(ratio, l) ==
    LET range_size == RSub(A_max_ratio(l), A_min_ratio(l))
    IN  IF RLt(RZero, range_size)
        THEN RSub(ROne, RMul(RAbs(RSub(RDiv(RSub(ratio, A_min_ratio(l)), range_size),
                                       Q(1, 2))),
                             Q(2, 1)))
        ELSE RZero

\* the for loop over enumerate(level_ranges): matches in table order
RECURSIVE A_matches_from(_, _)
A_matches_from(ratio, l) ==
    IF l > 8 THEN <<>>
    ELSE IF A_in_range(ratio, l)
         THEN <<<<l, A_centrality(ratio, l)>>>> \o A_matches_from(ratio, l + 1)
         ELSE A_matches_from(ratio, l + 1)

A_matches(ratio) == A_matches_from(ratio, 0)

\* max(matches, key=lambda m: m[1]): the first element with the largest key.
\* Two centralities that are equal in exact arithmetic are computed from
\* different table rows and their floats may differ in the last place:
\* round_up says that the later one of such a pair came out larger.
RECURSIVE A_max_from(_, _, _, _)
A_max_from(ms, i, best, round_up) ==
    IF i > Len(ms) THEN best
    ELSE IF RLt(best[2], ms[i][2]) \/ (round_up /\ best[2] = ms[i][2])
         THEN A_max_from(ms, i + 1, ms[i], round_up)
         ELSE A_max_from(ms, i + 1, best, round_up)

\* variant: the first match instead of the most central one
A_best_match_first(ms, round_up) == ms[1]

A_best_match(ms, round_up) == A_max_from(ms, 2, ms[1], round_up)

A_boundary_distance(ratio, l) ==
    RMin(RAbs(RSub(ratio, A_min_ratio(l))), RAbs(RSub(ratio, A_max_ratio(l))))

\* min(range(9), key=...): the first level with the smallest key
RECURSIVE A_min_from(_, _, _)
A_min_from(ratio, l, best) ==
    IF l > 8 THEN best
    ELSE IF RLt(A_boundary_distance(ratio, l), A_boundary_distance(ratio, best))
         THEN A_min_from(ratio, l + 1, l)
         ELSE A_min_from(ratio, l + 1, best)

\* variant: levels numbered from 1
A_closest_level_from_one(ratio) == A_min_from(ratio, 1, 0) + 1

A_closest_level(ratio) == A_min_from(ratio, 1, 0)

A_has_required(info) ==
    /\ IsSome(info.compression_ratio)
    /\ IsSome(info.min_blocksize)
    /\ IsSome(info.max_blocksize)

\* variant: equal block sizes give the quotient 1
A_blocksize_variability_quotient(info) ==
    IF info.min_blocksize = info.max_blocksize THEN ROne
    ELSE Q(Get(info.max_blocksize), Get(info.min_blocksize))

\* metrics['blocksize_variability']; evaluated only when min_blocksize # 0 or min = max
A_blocksize_variability(info) ==
    IF info.min_blocksize = info.max_blocksize THEN RZero
    ELSE Q(Get(info.max_blocksize), Get(info.min_blocksize))

\* variant: full efficiency when max_framesize is 0
A_framesize_efficiency_full(info) ==
    IF Get(info.max_framesize) > 0
    THEN RSub(ROne, Q(Get(info.min_framesize), Get(info.max_framesize)))
    ELSE ROne

\* metrics['framesize_efficiency']; evaluated only when the keys it reads are present
A_framesize_efficiency(info) ==
    IF Get(info.max_framesize) > 0
    THEN RSub(ROne, Q(Get(info.min_framesize), Get(info.max_framesize)))
    ELSE RZero

\* variant: max(1, blocksize_variability) in place of min
A_blend_max(centrality, framesize_efficiency, blocksize_variability) ==
    RAdd(RAdd(RMul(Q(7, 10), centrality), RMul(Q(2, 10), framesize_efficiency)),
         RMul(Q(1, 10), IF RLt(ROne, blocksize_variability)
                        THEN blocksize_variability ELSE ROne))

A_blend(centrality, framesize_efficiency, blocksize_variability) ==
    RAdd(RAdd(RMul(Q(7, 10), centrality), RMul(Q(2, 10), framesize_efficiency)),
         RMul(Q(1, 10), RMin(ROne, blocksize_variability)))

\* the exception, if any, raised while the metrics are computed (lines 101-114)
A_metrics_exception(info) ==
    IF ~IsNum(Get(info.compression_ratio)) THEN "TypeError"
    ELSE IF info.min_blocksize # info.max_blocksize /\ Get(info.min_blocksize) = 0
         THEN "ZeroDivisionError"
    ELSE IF ~IsSome(info.max_framesize) THEN "KeyError"
    ELSE IF Get(info.max_framesize) > 0 /\ ~IsSome(info.min_framesize) THEN "KeyError"
    ELSE "none"

\* the metrics dictionary of lines 98-114
A_metrics(info) ==
    [compression_ratio |-> Get(info.compression_ratio),
     ratio_score |-> RSub(ROne, Get(info.compression_ratio)),
     blocksize_variability |-> A_blocksize_variability(info),
     framesize_efficiency |-> A_framesize_efficiency(info)]

\* line 95: the third element of the result is a message, not a dictionary
MissingInformation == [message |-> "Missing required information"]

\* the third element of the tuple returned by estimate_compression_level;
\* None when the function raises
A_returned_metrics(info) ==
    IF ~A_has_required(info) THEN Some(MissingInformation)
    ELSE IF A_metrics_exception(info) # "none" THEN None
    ELSE Some(A_metrics(info))

A_estimate_compression_level(info, round_up) ==
    IF ~A_has_required(info) THEN Result(None, RZero)
    ELSE IF A_metrics_exception(info) # "none" THEN Raise(A_metrics_exception(info))
    ELSE LET ratio == Get(info.compression_ratio)
             ms == A_matches(ratio)
         IN  IF ms = <<>>
             THEN Result(Some(A_closest_level(ratio)), Q(5, 10))
             ELSE LET best == A_best_match(ms, round_up)
                  IN  Result(Some(best[1]),
                             A_blend(best[2], A_framesize_efficiency(info),
                                     A_blocksize_variability(info)))

----------------------------------------------------------------------------
(* src/flac_level_detection.py : analyze_flac_file, the probe *)

\* text that int() / float() cannot parse
Bad == -1

\* the info dictionary; a key that is not in the dictionary is None
EmptyInfo ==
    [file_size |-> None, limited_analysis |-> FALSE, error |-> FALSE,
     sample_rate |-> None, channels |-> None, bits_per_sample |-> None,
     duration |-> None,
     min_blocksize |-> None, max_blocksize |-> None,
     min_framesize |-> None, max_framesize |-> None,
     uncompressed_size |-> None, compression_ratio |-> None]

\* lines 32-35: the tools are not available
D_limited_info(file_size) ==
    [EmptyInfo EXCEPT !.file_size = Some(file_size), !.limited_analysis = TRUE]

\* lines 94-98: a tool exited with a non-zero status
D_error_info(file_size) ==
    [EmptyInfo EXCEPT !.file_size = Some(file_size), !.limited_analysis = TRUE,
                      !.error = TRUE]

\* lines 64-69: int() of the first four lines, when there are at least four
D_meta_parse_fails(mo) == Len(mo) >= 4 /\ \E i \in 1..4 : mo[i] = Bad

\* variant: the duration is required as well
D_has_stream_keys_and_duration(fo) ==
    /\ IsSome(fo.sample_rate) /\ IsSome(fo.channels) /\ IsSome(fo.bits_per_sample)
    /\ IsSome(fo.duration)

\* line 72
D_has_stream_keys(fo) ==
    IsSome(fo.sample_rate) /\ IsSome(fo.channels) /\ IsSome(fo.bits_per_sample)

\* info.get('duration', '0'), in milliseconds
D_duration_text(fo) == IF IsSome(fo.duration) THEN Get(fo.duration) ELSE 0

\* lines 73-78: int() of the three stream fields and float() of the duration
D_stream_parse_fails(fo) ==
    \/ Get(fo.sample_rate) = Bad
    \/ Get(fo.channels) = Bad
    \/ Get(fo.bits_per_sample) = Bad
    \/ D_duration_text(fo) = Bad

\* line 79: int(duration_seconds * sample_rate * channels * (bits_per_sample / 8))
D_uncompressed_bytes(fo) ==
    (D_duration_text(fo) * Get(fo.sample_rate) * Get(fo.channels)
        * Get(fo.bits_per_sample)) \div 8000

\* lines 50-86: the dictionary built from the two outputs; None is the
\* "except Exception: return None" of lines 99-101
D_parse(file_size, fo, mo) ==
    IF D_meta_parse_fails(mo) THEN None
    ELSE IF D_has_stream_keys(fo) /\ D_stream_parse_fails(fo) THEN None
    ELSE LET withFlac ==
                 [EmptyInfo EXCEPT !.file_size = Some(file_size),
                                   !.sample_rate = fo.sample_rate,
                                   !.channels = fo.channels,
                                   !.bits_per_sample = fo.bits_per_sample,
                                   !.duration = fo.duration,
                                   !.compression_ratio =
                                       IF fo.ratio_text THEN Some(NaN) ELSE None]
             withMeta ==
                 IF Len(mo) >= 4
                 THEN [withFlac EXCEPT !.min_blocksize = Some(mo[1]),
                                       !.max_blocksize = Some(mo[2]),
                                       !.min_framesize = Some(mo[3]),
                                       !.max_framesize = Some(mo[4])]
                 ELSE withFlac
         IN  IF ~D_has_stream_keys(fo) THEN Some(withMeta)
             ELSE LET uncompressed_bytes == D_uncompressed_bytes(fo)
                      withSize ==
                          [withMeta EXCEPT !.uncompressed_size = Some(uncompressed_bytes)]
                  IN  IF uncompressed_bytes > 0
                      THEN Some([withSize EXCEPT !.compression_ratio =
                                     Some(Q(file_size, uncompressed_bytes))])
                      ELSE Some(withSize)

----------------------------------------------------------------------------
(* src/flac_analyzer.py : analyze_flac_file, the probe *)

\* lines 54-59: int() of the first four lines, when there are at least four
A_meta_parse_fails(mo) == Len(mo) >= 4 /\ \E i \in 1..4 : mo[i] = Bad

\* line 62
A_has_stream_keys(fo) ==
    IsSome(fo.sample_rate) /\ IsSome(fo.channels) /\ IsSome(fo.bits_per_sample)

\* info.get('duration', '0'), in milliseconds
A_duration_text(fo) == IF IsSome(fo.duration) THEN Get(fo.duration) ELSE 0

\* lines 63-68: int() of the three stream fields and float() of the duration
A_stream_parse_fails(fo) ==
    \/ Get(fo.sample_rate) = Bad
    \/ Get(fo.channels) = Bad
    \/ Get(fo.bits_per_sample) = Bad
    \/ A_duration_text(fo) = Bad

\* line 69: int(duration_seconds * sample_rate * channels * (bits_per_sample / 8))
A_uncompressed_bytes(fo) ==
    (A_duration_text(fo) * Get(fo.sample_rate) * Get(fo.channels)
        * Get(fo.bits_per_sample)) \div 8000

\* lines 40-76: the dictionary built from the two outputs; None is the
\* "except Exception: return None" of lines 83-85
A_parse(file_size, fo, mo) ==
    IF A_meta_parse_fails(mo) THEN None
    ELSE IF A_has_stream_keys(fo) /\ A_stream_parse_fails(fo) THEN None
    ELSE LET withFlac ==
                 [EmptyInfo EXCEPT !.file_size = Some(file_size),
                                   !.sample_rate = fo.sample_rate,
                                   !.channels = fo.channels,
                                   !.bits_per_sample = fo.bits_per_sample,
                                   !.duration = fo.duration,
                                   !.compression_ratio =
                                       IF fo.ratio_text THEN Some(NaN) ELSE None]
             withMeta ==
                 IF Len(mo) >= 4
                 THEN [withFlac EXCEPT !.min_blocksize = Some(mo[1]),
                                       !.max_blocksize = Some(mo[2]),
                                       !.min_framesize = Some(mo[3]),
                                       !.max_framesize = Some(mo[4])]
                 ELSE withFlac
         IN  IF ~A_has_stream_keys(fo) THEN Some(withMeta)
             ELSE LET uncompressed_bytes == A_uncompressed_bytes(fo)
                      withSize ==
                          [withMeta EXCEPT !.uncompressed_size = Some(uncompressed_bytes)]
                  IN  IF uncompressed_bytes > 0
                      THEN Some([withSize EXCEPT !.compression_ratio =
                                     Some(Q(file_size, uncompressed_bytes))])
                      ELSE Some(withSize)

----------------------------------------------------------------------------
(* src/flac_level_detection.py : get_flac_compression_level *)

\* line 192: if not info
GetLevel_not_analyzed(info) == info = None

\* line 202: confidence < threshold
\* variant: confidence <= threshold
GetLevel_below_or_equal(confidence, threshold) == RLe(confidence, threshold)

GetLevel_below(confidence, threshold) == RLt(confidence, threshold)

\* line 207: except Exception
\* variant: except subprocess.CalledProcessError
GetLevel_catches_process_errors(e) == e = "CalledProcessError"

GetLevel_catches(e) ==
    e \in {"OSError", "FileNotFoundError", "ValueError", "TypeError", "KeyError",
           "ZeroDivisionError", "CalledProcessError"}

\* lines 197-209 as a function of the estimator's outcome r and the threshold:
\* <<v>> when v is returned, None when an exception leaves the function
GetLevel_gate(r, t) ==
    IF r.exc # "none"
    THEN IF GetLevel_catches(r.exc) THEN Some(Some(5)) ELSE None
    ELSE IF ~IsNum(t)
    THEN IF GetLevel_catches("TypeError") THEN Some(Some(5)) ELSE None
    ELSE IF GetLevel_below(r.conf, t) THEN Some(Some(5))
    ELSE Some(r.level)

----------------------------------------------------------------------------
(* Inputs offered by the environment *)

\* file sizes in bytes; with 1000 or 2000 uncompressed bytes they give the
\* table's boundaries, range midpoints and ratios outside every range
FileSizes == {0, 490, 500, 580, 590, 625, 700, 850, 1000, 1200}

Files == {[exists |-> FALSE, size |-> 0]} \cup
         {[exists |-> TRUE, size |-> n] : n \in FileSizes}

\* 0.7 is the default of the threshold parameter; NaN is an argument that is not a number
Thresholds == {Q(-1, 10), Q(0, 1), Q(1, 10), Q(7, 10), Q(1, 1), Q(11, 10), NaN}

GoodFlacOutput ==
    [sample_rate |-> Some(1000), channels |-> Some(1), bits_per_sample |-> Some(8),
     duration |-> Some(1000), ratio_text |-> FALSE]

\* outputs of "flac --analyze --show-format --show-streaminfo": the key: value
\* lines the parser keeps; duration in milliseconds; ratio_text is a line
\* "compression ratio: <text>"
FlacOutputs ==
    {[GoodFlacOutput EXCEPT !.duration = d] : d \in {None, Some(Bad), Some(0), Some(2000)}}
    \cup {GoodFlacOutput,
          [GoodFlacOutput EXCEPT !.sample_rate = None],
          [GoodFlacOutput EXCEPT !.sample_rate = Some(Bad)],
          [GoodFlacOutput EXCEPT !.channels = None],
          [GoodFlacOutput EXCEPT !.channels = Some(Bad)],
          [GoodFlacOutput EXCEPT !.bits_per_sample = None],
          [GoodFlacOutput EXCEPT !.bits_per_sample = Some(Bad)],
          [GoodFlacOutput EXCEPT !.ratio_text = TRUE],
          [GoodFlacOutput EXCEPT !.ratio_text = TRUE, !.channels = None]}

BlockSizes == {0, 1152, 4096}
FrameSizes == {10 * i : i \in 0..MaxFrameSteps}

\* outputs of metaflac: the four integer lines, too few lines, or a line that is not an integer
MetaflacOutputs ==
    {<<a, b, c, d>> : a \in BlockSizes, b \in BlockSizes, c \in FrameSizes, d \in FrameSizes}
    \cup {<<>>, <<4096, 4096, 10>>, <<4096, Bad, 10, 20>>}

ToolOutcomes == {"ok", "nonzero", "missing"}

\* infos offered to the estimators when they are called directly
RatioGrid == {Q(470 + 5 * i, 1000) : i \in 0..MaxRatioSteps}
\* the grid, a ratio far below and one far above every range, no ratio, a ratio that is text
EstRatios == {None, Some(NaN), Some(Q(0, 1)), Some(Q(3, 1))} \cup {Some(r) : r \in RatioGrid}
EstBlocks == {None} \cup {Some(b) : b \in BlockSizes}
EstFrames == {None} \cup {Some(f) : f \in FrameSizes}

\* stream infos given to the estimators and then to the gate
GateInfos ==
    {[EmptyInfo EXCEPT !.file_size = Some(s), !.compression_ratio = r,
                       !.min_blocksize = b, !.max_blocksize = b,
                       !.min_framesize = f, !.max_framesize = f] :
        s \in {0, 1000},
        r \in {None, Some(Q(49, 100)), Some(Q(58, 100)), Some(Q(100, 100))},
        b \in {None, Some(4096)},
        f \in {None, Some(10)}}

EstInfos ==
    {[EmptyInfo EXCEPT !.compression_ratio = r, !.min_blocksize = a, !.max_blocksize = b,
                       !.min_framesize = c, !.max_framesize = d, !.limited_analysis = l] :
        r \in EstRatios, a \in EstBlocks, b \in EstBlocks, c \in EstFrames,
        d \in EstFrames, l \in BOOLEAN}

----------------------------------------------------------------------------
(* State *)

VARIABLES
    pc,            \* position of the get_flac_compression_level call
    file,          \* the file at the path given to the call
    threshold,     \* the threshold argument
    flac_out,      \* stdout of the flac run, once it has run
    metaflac_out,  \* stdout of the metaflac run, once it has run
    info,          \* what analyze_flac_file returned
    est,           \* what estimate_compression_level returned
    exc,           \* the exception being propagated, "none" if none
    ret,           \* the value returned by get_flac_compression_level
    raised,        \* an exception left get_flac_compression_level
    spawned,       \* the external commands spawned by the call, in order
    einfo,         \* the info given to a direct call of the estimators
    resA,          \* result of flac_analyzer.estimate_compression_level(einfo)
    resD,          \* result of flac_level_detection.estimate_compression_level(einfo)
    metricsA,      \* the metrics returned with resA
    gatedA,        \* resA passed through the gate of get_flac_compression_level
    gatedD,        \* resD passed through the gate of get_flac_compression_level
    float_up,      \* how the float comparison of two equal centralities of einfo comes out
    einfo2,        \* the info given to a second direct call of the estimators
    resA2,         \* result of flac_analyzer.estimate_compression_level(einfo2)
    resD2,         \* result of flac_level_detection.estimate_compression_level(einfo2)
    float_up2,     \* as float_up, for einfo2
    calls,         \* per worker: its concurrent call of get_flac_compression_level
    frames,        \* the local variables (info, level and confidence) of those calls
    conv,          \* a call of convert_file or convert_to_flac
    tracking,      \* the tracking file
    outputs,       \* per worker: the mtime of the output file of its input, None if missing
    wk,            \* per worker: its convert_file call and what followed
    force          \* args.force

callVars == <<pc, file, threshold, flac_out, metaflac_out, info, est, exc, ret,
              raised, spawned>>
pairVars == <<einfo2, resA2, resD2, float_up2>>
trackVars == <<tracking, outputs, wk, force>>
poolVars == <<calls, frames, conv, tracking, outputs, wk, force>>
estVars == <<einfo, resA, resD, metricsA, gatedA, gatedD, float_up, einfo2, resA2, resD2,
             float_up2>>
vars == <<pc, file, threshold, flac_out, metaflac_out, info, est, exc, ret,
          raised, spawned, einfo, resA, resD, metricsA, gatedA, gatedD, float_up,
          einfo2, resA2, resD2, float_up2, calls, frames, conv, tracking, outputs, wk,
          force>>

CallIdle ==
    /\ pc = "idle"
    /\ file = [exists |-> FALSE, size |-> 0]
    /\ threshold = Q(7, 10)
    /\ flac_out = None
    /\ metaflac_out = None
    /\ info = None
    /\ est = None
    /\ exc = "none"
    /\ ret = None
    /\ raised = FALSE
    /\ spawned = <<>>

\* no estimator has been called directly
EstIdle ==
    /\ resA = None
    /\ resD = None
    /\ metricsA = None
    /\ gatedA = None
    /\ gatedD = None

\* no second call of the estimators
PairIdle ==
    /\ einfo2 = EmptyInfo
    /\ resA2 = None
    /\ resD2 = None
    /\ float_up2 = FALSE

Workers == 1..MaxWorkers

\* a worker that has not called get_flac_compression_level
IdleCall == [pc |-> "idle", given |-> None, threshold |-> Q(7, 10), up |-> FALSE,
             outcome |-> None]
IdleFrame == [info |-> None, est |-> None]

\* no conversion has been asked for
IdleConv == [pc |-> "idle", via_convert_file |-> FALSE, output_format |-> "flac",
             compression_level |-> 5, estimated |-> None,
             input_compression_level |-> None, op |-> "none", success |-> None]

\* keys of the tracking file: the input file of each worker, and 0, a file
\* converted by an earlier run
TrackKeys == 0..MaxWorkers

\* tracking data: for each key its converted_at, None if the key is not there
EmptyTracking == [k \in TrackKeys |-> None]

\* the tracking file: JSON text holding data, or "empty" after the
\* truncation of open(..., 'w'), or "corrupt"
Json(data) == [state |-> "json", data |-> data]
EmptyFile == [state |-> "empty", data |-> EmptyTracking]
CorruptFile == [state |-> "corrupt", data |-> EmptyTracking]

\* a worker that has not started: what should_convert saw and said (seen,
\* later), the tracking data it loaded, the entry it is writing
IdleWorker == [pc |-> "start", seen |-> None, converted |-> FALSE,
               tracked_before |-> FALSE, data |-> EmptyTracking, later |-> None]

\* no conversion is being tracked
TrackIdle ==
    /\ tracking = Json(EmptyTracking)
    /\ outputs = [w \in Workers |-> None]
    /\ wk = [w \in Workers |-> IdleWorker]
    /\ force = FALSE

\* no worker of the pool has started
PoolIdle ==
    /\ calls = [w \in Workers |-> IdleCall]
    /\ frames = [w \in Workers |-> IdleFrame]
    /\ conv = IdleConv
    /\ TrackIdle

Init ==
    /\ CallIdle
    /\ einfo = EmptyInfo
    /\ EstIdle
    /\ float_up = FALSE
    /\ PairIdle
    /\ PoolIdle

----------------------------------------------------------------------------
(* get_flac_compression_level(flac_file, threshold), step by step *)

GetLevel_Call(f, t) ==
    /\ pc = "idle"
    /\ file' = f
    /\ threshold' = t
    /\ pc' = "analyze"
    /\ UNCHANGED <<flac_out, metaflac_out, info, est, exc, ret, raised, spawned>>

\* lines 17-19: the path does not exist
D_NotFound ==
    /\ pc = "analyze"
    /\ ~file.exists
    /\ info' = None
    /\ pc' = "analyzed"
    /\ UNCHANGED <<file, threshold, flac_out, metaflac_out, est, exc, ret, raised, spawned>>

\* line 22: os.path.getsize
D_GetSize ==
    /\ pc = "analyze"
    /\ file.exists
    /\ pc' = "flac_version"
    /\ UNCHANGED <<file, threshold, flac_out, metaflac_out, info, est, exc, ret, raised,
                   spawned>>

\* line 22, the file having been removed after the check of line 17:
\* OSError, outside the try block of analyze_flac_file
D_GetSizeFails ==
    /\ pc = "analyze"
    /\ file.exists
    /\ file' = [exists |-> FALSE, size |-> 0]
    /\ exc' = "OSError"
    /\ pc' = "except"
    /\ UNCHANGED <<threshold, flac_out, metaflac_out, info, est, ret, raised, spawned>>

\* line 27: flac --version
D_FlacVersion(o) ==
    /\ pc = "flac_version"
    /\ spawned' = Append(spawned, "flac --version")
    /\ IF o = "ok"
       THEN /\ pc' = "metaflac_version"
            /\ UNCHANGED info
       ELSE /\ info' = Some(D_limited_info(file.size))
            /\ pc' = "analyzed"
    /\ UNCHANGED <<file, threshold, flac_out, metaflac_out, est, exc, ret, raised>>

\* line 28: metaflac --version
D_MetaflacVersion(o) ==
    /\ pc = "metaflac_version"
    /\ spawned' = Append(spawned, "metaflac --version")
    /\ IF o = "ok"
       THEN /\ pc' = "flac"
            /\ UNCHANGED info
       ELSE /\ info' = Some(D_limited_info(file.size))
            /\ pc' = "analyzed"
    /\ UNCHANGED <<file, threshold, flac_out, metaflac_out, est, exc, ret, raised>>

\* lines 38-41: flac --analyze; a non-zero exit is CalledProcessError (line 88),
\* a binary that has disappeared is FileNotFoundError (line 99)
D_RunFlacFails(o) ==
    /\ pc = "flac"
    /\ o # "ok"
    /\ spawned' = Append(spawned, "flac --analyze")
    /\ info' = IF o = "nonzero" THEN Some(D_error_info(file.size)) ELSE None
    /\ pc' = "analyzed"
    /\ UNCHANGED <<file, threshold, flac_out, metaflac_out, est, exc, ret, raised>>

D_RunFlac(out) ==
    /\ pc = "flac"
    /\ spawned' = Append(spawned, "flac --analyze")
    /\ flac_out' = Some(out)
    /\ pc' = "metaflac"
    /\ UNCHANGED <<file, threshold, metaflac_out, info, est, exc, ret, raised>>

\* lines 44-48: metaflac --show-...
D_RunMetaflacFails(o) ==
    /\ pc = "metaflac"
    /\ o # "ok"
    /\ spawned' = Append(spawned, "metaflac --show")
    /\ info' = IF o = "nonzero" THEN Some(D_error_info(file.size)) ELSE None
    /\ pc' = "analyzed"
    /\ UNCHANGED <<file, threshold, flac_out, metaflac_out, est, exc, ret, raised>>

D_RunMetaflac(out) ==
    /\ pc = "metaflac"
    /\ spawned' = Append(spawned, "metaflac --show")
    /\ metaflac_out' = Some(out)
    /\ pc' = "parse"
    /\ UNCHANGED <<file, threshold, flac_out, info, est, exc, ret, raised>>

\* lines 50-86 and 99-101
D_Parse ==
    /\ pc = "parse"
    /\ info' = D_parse(file.size, Get(flac_out), Get(metaflac_out))
    /\ pc' = "analyzed"
    /\ UNCHANGED <<file, threshold, flac_out, metaflac_out, est, exc, ret, raised, spawned>>

\* lines 192-194
GetLevel_NotAnalyzed ==
    /\ pc = "analyzed"
    /\ GetLevel_not_analyzed(info)
    /\ ret' = Some(5)
    /\ pc' = "done"
    /\ UNCHANGED <<file, threshold, flac_out, metaflac_out, info, est, exc, raised, spawned>>

\* line 197
GetLevel_Estimate(round_up) ==
    /\ pc = "analyzed"
    /\ ~GetLevel_not_analyzed(info)
    /\ LET r == D_estimate_compression_level(Get(info), round_up)
       IN  /\ est' = Some(r)
           /\ exc' = r.exc
           /\ pc' = IF r.exc = "none" THEN "gate" ELSE "except"
    /\ UNCHANGED <<file, threshold, flac_out, metaflac_out, info, ret, raised, spawned>>

\* lines 201-206; comparing with a threshold that is not a number is a TypeError
GetLevel_Gate ==
    /\ pc = "gate"
    /\ IF ~IsNum(threshold)
       THEN /\ exc' = "TypeError"
            /\ pc' = "except"
            /\ UNCHANGED ret
       ELSE /\ ret' = IF GetLevel_below(Get(est).conf, threshold)
                      THEN Some(5)
                      ELSE Get(est).level
            /\ pc' = "done"
            /\ UNCHANGED exc
    /\ UNCHANGED <<file, threshold, flac_out, metaflac_out, info, est, raised, spawned>>

\* lines 207-209
GetLevel_Except ==
    /\ pc = "except"
    /\ IF GetLevel_catches(exc)
       THEN /\ ret' = Some(5)
            /\ exc' = "none"
            /\ UNCHANGED raised
       ELSE /\ raised' = TRUE
            /\ UNCHANGED <<ret, exc>>
    /\ pc' = "done"
    /\ UNCHANGED <<file, threshold, flac_out, metaflac_out, info, est, spawned>>

Next ==
    \/ \E f \in Files, t \in Thresholds : GetLevel_Call(f, t) /\ UNCHANGED estVars /\ UNCHANGED poolVars
    \/ D_NotFound /\ UNCHANGED estVars /\ UNCHANGED poolVars
    \/ D_GetSize /\ UNCHANGED estVars /\ UNCHANGED poolVars
    \/ D_GetSizeFails /\ UNCHANGED estVars /\ UNCHANGED poolVars
    \/ \E o \in ToolOutcomes : D_FlacVersion(o) /\ UNCHANGED estVars /\ UNCHANGED poolVars
    \/ \E o \in ToolOutcomes : D_MetaflacVersion(o) /\ UNCHANGED estVars /\ UNCHANGED poolVars
    \/ \E o \in ToolOutcomes : D_RunFlacFails(o) /\ UNCHANGED estVars /\ UNCHANGED poolVars
    \/ \E out \in FlacOutputs : D_RunFlac(out) /\ UNCHANGED estVars /\ UNCHANGED poolVars
    \/ \E o \in ToolOutcomes : D_RunMetaflacFails(o) /\ UNCHANGED estVars /\ UNCHANGED poolVars
    \/ \E out \in MetaflacOutputs : D_RunMetaflac(out) /\ UNCHANGED estVars /\ UNCHANGED poolVars
    \/ D_Parse /\ UNCHANGED estVars /\ UNCHANGED poolVars
    \/ GetLevel_NotAnalyzed /\ UNCHANGED estVars /\ UNCHANGED poolVars
    \/ \E round_up \in BOOLEAN : GetLevel_Estimate(round_up) /\ UNCHANGED estVars /\ UNCHANGED poolVars
    \/ GetLevel_Gate /\ UNCHANGED estVars /\ UNCHANGED poolVars
    \/ GetLevel_Except /\ UNCHANGED estVars /\ UNCHANGED poolVars

Spec == Init /\ [][Next]_vars

----------------------------------------------------------------------------
(* Direct calls of the two estimate_compression_level functions *)

\* the ratio of the info lies in two ranges with the same centrality and no
\* range holds it more centrally: the only inputs for which the comparison of
\* max() depends on the rounding of the two computed centralities
CentralityTie(i) ==
    /\ IsSome(i.compression_ratio)
    /\ IsNum(Get(i.compression_ratio))
    /\ LET ms == D_matches(Get(i.compression_ratio))
       IN  \E j, k \in 1..Len(ms) :
               /\ j < k
               /\ ms[j][2] = ms[k][2]
               /\ \A n \in 1..Len(ms) : RLe(ms[n][2], ms[j][2])

\* both functions compute the centralities of an info with the same float
\* operations, so the comparison comes out the same way in both
FloatOutcomes(i) == IF CentralityTie(i) THEN BOOLEAN ELSE {FALSE}

EstInit ==
    /\ CallIdle
    /\ einfo \in EstInfos
    /\ EstIdle
    /\ float_up \in FloatOutcomes(einfo)
    /\ PairIdle
    /\ PoolIdle

Est_Analyzer ==
    /\ resA = None
    /\ resA' = Some(A_estimate_compression_level(einfo, float_up))
    /\ metricsA' = A_returned_metrics(einfo)
    /\ UNCHANGED <<einfo, resD, gatedA, gatedD, float_up>>
    /\ UNCHANGED pairVars
    /\ UNCHANGED callVars
    /\ UNCHANGED poolVars

Est_Detection ==
    /\ resD = None
    /\ resD' = Some(D_estimate_compression_level(einfo, float_up))
    /\ UNCHANGED <<einfo, resA, metricsA, gatedA, gatedD, float_up>>
    /\ UNCHANGED pairVars
    /\ UNCHANGED callVars
    /\ UNCHANGED poolVars

EstNext ==
    \/ Est_Analyzer
    \/ Est_Detection

EstSpec == EstInit /\ [][EstNext]_vars

----------------------------------------------------------------------------
(* Two direct calls of each estimate_compression_level, on two ratios *)

\* an info with the given ratio, equal block sizes and frame sizes 10 and 20
InfoWithRatio(ratio) ==
    [EmptyInfo EXCEPT !.compression_ratio = Some(ratio),
                      !.min_blocksize = Some(4096), !.max_blocksize = Some(4096),
                      !.min_framesize = Some(10), !.max_framesize = Some(20)]

\* the ratios given to the two calls: the grid, 0 and 3
PairRatios == {Q(0, 1), Q(3, 1)} \cup RatioGrid

PairInit ==
    /\ CallIdle
    /\ EstIdle
    /\ resA2 = None
    /\ resD2 = None
    /\ \E r1, r2 \in PairRatios :
           /\ RLt(r1, r2)
           /\ einfo = InfoWithRatio(r1)
           /\ einfo2 = InfoWithRatio(r2)
    /\ float_up \in FloatOutcomes(einfo)
    /\ float_up2 \in FloatOutcomes(einfo2)
    /\ PoolIdle

Pair_Analyzer ==
    /\ resA2 = None
    /\ resA2' = Some(A_estimate_compression_level(einfo2, float_up2))
    /\ UNCHANGED <<einfo2, resD2, float_up2>>
    /\ UNCHANGED <<einfo, resA, resD, metricsA, gatedA, gatedD, float_up>>
    /\ UNCHANGED callVars
    /\ UNCHANGED poolVars

Pair_Detection ==
    /\ resD2 = None
    /\ resD2' = Some(D_estimate_compression_level(einfo2, float_up2))
    /\ UNCHANGED <<einfo2, resA2, float_up2>>
    /\ UNCHANGED <<einfo, resA, resD, metricsA, gatedA, gatedD, float_up>>
    /\ UNCHANGED callVars
    /\ UNCHANGED poolVars

PairNext ==
    \/ Est_Analyzer
    \/ Est_Detection
    \/ Pair_Analyzer
    \/ Pair_Detection

PairSpec == PairInit /\ [][PairNext]_vars

----------------------------------------------------------------------------
(* Either estimator followed by the gate of get_flac_compression_level *)

GateInit ==
    /\ pc = "idle"
    /\ file = [exists |-> FALSE, size |-> 0]
    /\ threshold \in Thresholds
    /\ flac_out = None
    /\ metaflac_out = None
    /\ info = None
    /\ est = None
    /\ exc = "none"
    /\ ret = None
    /\ raised = FALSE
    /\ spawned = <<>>
    /\ einfo \in GateInfos
    /\ EstIdle
    /\ float_up \in FloatOutcomes(einfo)
    /\ PairIdle
    /\ PoolIdle

\* lines 197-209 applied to the result of flac_analyzer's estimator
Gate_Analyzer ==
    /\ IsSome(resA)
    /\ gatedA = None
    /\ gatedA' = Some(GetLevel_gate(Get(resA), threshold))
    /\ UNCHANGED <<einfo, resA, resD, metricsA, gatedD, float_up>>
    /\ UNCHANGED pairVars
    /\ UNCHANGED callVars
    /\ UNCHANGED poolVars

\* lines 197-209 applied to the result of flac_level_detection's estimator
Gate_Detection ==
    /\ IsSome(resD)
    /\ gatedD = None
    /\ gatedD' = Some(GetLevel_gate(Get(resD), threshold))
    /\ UNCHANGED <<einfo, resA, resD, metricsA, gatedA, float_up>>
    /\ UNCHANGED pairVars
    /\ UNCHANGED callVars
    /\ UNCHANGED poolVars

GateNext ==
    \/ Est_Analyzer
    \/ Est_Detection
    \/ Gate_Analyzer
    \/ Gate_Detection

GateSpec == GateInit /\ [][GateNext]_vars

----------------------------------------------------------------------------
(* Direct calls of the two analyze_flac_file functions *)

\* flac_level_detection.analyze_flac_file(f)
D_Analyze_Call(f) ==
    /\ pc = "idle"
    /\ file' = f
    /\ pc' = "analyze"
    /\ UNCHANGED <<threshold, flac_out, metaflac_out, info, est, exc, ret, raised, spawned>>

\* flac_analyzer.analyze_flac_file(f)
A_Analyze_Call(f) ==
    /\ pc = "idle"
    /\ file' = f
    /\ pc' = "a_analyze"
    /\ UNCHANGED <<threshold, flac_out, metaflac_out, info, est, exc, ret, raised, spawned>>

\* lines 20-21: the path does not exist, FileNotFoundError to the caller
A_NotFound ==
    /\ pc = "a_analyze"
    /\ ~file.exists
    /\ exc' = "FileNotFoundError"
    /\ pc' = "a_raised"
    /\ UNCHANGED <<file, threshold, flac_out, metaflac_out, info, est, ret, raised, spawned>>

\* line 24: os.path.getsize
A_GetSize ==
    /\ pc = "a_analyze"
    /\ file.exists
    /\ pc' = "a_flac"
    /\ UNCHANGED <<file, threshold, flac_out, metaflac_out, info, est, exc, ret, raised,
                   spawned>>

\* line 24, the file having been removed after the check of line 20:
\* OSError, outside the try block
A_GetSizeFails ==
    /\ pc = "a_analyze"
    /\ file.exists
    /\ file' = [exists |-> FALSE, size |-> 0]
    /\ exc' = "OSError"
    /\ pc' = "a_raised"
    /\ UNCHANGED <<threshold, flac_out, metaflac_out, info, est, ret, raised, spawned>>

\* lines 28-31: flac --analyze; a non-zero exit is caught at line 78, a
\* missing binary at line 83, and both return None
A_RunFlacFails(o) ==
    /\ pc = "a_flac"
    /\ o # "ok"
    /\ spawned' = Append(spawned, "flac --analyze")
    /\ info' = None
    /\ pc' = "a_analyzed"
    /\ UNCHANGED <<file, threshold, flac_out, metaflac_out, est, exc, ret, raised>>

A_RunFlac(out) ==
    /\ pc = "a_flac"
    /\ spawned' = Append(spawned, "flac --analyze")
    /\ flac_out' = Some(out)
    /\ pc' = "a_metaflac"
    /\ UNCHANGED <<file, threshold, metaflac_out, info, est, exc, ret, raised>>

\* lines 34-38: metaflac --show-...
A_RunMetaflacFails(o) ==
    /\ pc = "a_metaflac"
    /\ o # "ok"
    /\ spawned' = Append(spawned, "metaflac --show")
    /\ info' = None
    /\ pc' = "a_analyzed"
    /\ UNCHANGED <<file, threshold, flac_out, metaflac_out, est, exc, ret, raised>>

A_RunMetaflac(out) ==
    /\ pc = "a_metaflac"
    /\ spawned' = Append(spawned, "metaflac --show")
    /\ metaflac_out' = Some(out)
    /\ pc' = "a_parse"
    /\ UNCHANGED <<file, threshold, flac_out, info, est, exc, ret, raised>>

\* lines 40-76 and 83-85
A_Parse ==
    /\ pc = "a_parse"
    /\ info' = A_parse(file.size, Get(flac_out), Get(metaflac_out))
    /\ pc' = "a_analyzed"
    /\ UNCHANGED <<file, threshold, flac_out, metaflac_out, est, exc, ret, raised, spawned>>

ProbeNext ==
    \/ \E f \in Files : D_Analyze_Call(f) /\ UNCHANGED estVars /\ UNCHANGED poolVars
    \/ D_NotFound /\ UNCHANGED estVars /\ UNCHANGED poolVars
    \/ D_GetSize /\ UNCHANGED estVars /\ UNCHANGED poolVars
    \/ D_GetSizeFails /\ UNCHANGED estVars /\ UNCHANGED poolVars
    \/ \E o \in ToolOutcomes : D_FlacVersion(o) /\ UNCHANGED estVars /\ UNCHANGED poolVars
    \/ \E o \in ToolOutcomes : D_MetaflacVersion(o) /\ UNCHANGED estVars /\ UNCHANGED poolVars
    \/ \E o \in ToolOutcomes : D_RunFlacFails(o) /\ UNCHANGED estVars /\ UNCHANGED poolVars
    \/ \E out \in FlacOutputs : D_RunFlac(out) /\ UNCHANGED estVars /\ UNCHANGED poolVars
    \/ \E o \in ToolOutcomes : D_RunMetaflacFails(o) /\ UNCHANGED estVars /\ UNCHANGED poolVars
    \/ \E out \in MetaflacOutputs : D_RunMetaflac(out) /\ UNCHANGED estVars /\ UNCHANGED poolVars
    \/ D_Parse /\ UNCHANGED estVars /\ UNCHANGED poolVars
    \/ \E f \in Files : A_Analyze_Call(f) /\ UNCHANGED estVars /\ UNCHANGED poolVars
    \/ A_NotFound /\ UNCHANGED estVars /\ UNCHANGED poolVars
    \/ A_GetSize /\ UNCHANGED estVars /\ UNCHANGED poolVars
    \/ A_GetSizeFails /\ UNCHANGED estVars /\ UNCHANGED poolVars
    \/ \E o \in ToolOutcomes : A_RunFlacFails(o) /\ UNCHANGED estVars /\ UNCHANGED poolVars
    \/ \E out \in FlacOutputs : A_RunFlac(out) /\ UNCHANGED estVars /\ UNCHANGED poolVars
    \/ \E o \in ToolOutcomes : A_RunMetaflacFails(o) /\ UNCHANGED estVars /\ UNCHANGED poolVars
    \/ \E out \in MetaflacOutputs : A_RunMetaflac(out) /\ UNCHANGED estVars /\ UNCHANGED poolVars
    \/ A_Parse /\ UNCHANGED estVars /\ UNCHANGED poolVars

ProbeSpec == Init /\ [][ProbeNext]_vars

----------------------------------------------------------------------------
(* Concurrent calls of get_flac_compression_level by the workers of the pool *)

\* lines 178-209 run alone on probe output i with threshold t: <<v>> when v
\* is returned, None when an exception leaves the function
GetLevel_alone(i, t, up) ==
    IF GetLevel_not_analyzed(i) THEN Some(Some(5))
    ELSE GetLevel_gate(D_estimate_compression_level(Get(i), up), t)

\* variant: info, level and confidence kept in one module-level place
GetLevel_frame_shared(w) == 1

\* info, level and confidence are local variables: every call has its own
GetLevel_frame(w) == w

\* what analyze_flac_file returns to the workers
PoolInfos ==
    {None, Some(D_limited_info(1000))}
    \cup {Some(InfoWithRatio(r)) : r \in {NaN, Q(49, 100), Q(57, 100), Q(85, 100)}}

PoolThresholds == {Q(0, 1), Q(7, 10)}

\* lines 186-189: the call and its analyze_flac_file, whose result is i
W_Analyze(w, i, t, up) ==
    /\ calls[w].pc = "idle"
    /\ calls' = [calls EXCEPT ![w] = [pc |-> "analyzed", given |-> i, threshold |-> t,
                                       up |-> up, outcome |-> None]]
    /\ frames' = [frames EXCEPT ![GetLevel_frame(w)].info = i]

\* lines 192-194
W_NotAnalyzed(w) ==
    /\ calls[w].pc = "analyzed"
    /\ GetLevel_not_analyzed(frames[GetLevel_frame(w)].info)
    /\ calls' = [calls EXCEPT ![w].pc = "done", ![w].outcome = Some(Some(5))]
    /\ UNCHANGED frames

\* line 197
W_Estimate(w) ==
    /\ calls[w].pc = "analyzed"
    /\ ~GetLevel_not_analyzed(frames[GetLevel_frame(w)].info)
    /\ frames' = [frames EXCEPT ![GetLevel_frame(w)].est =
                      Some(D_estimate_compression_level(
                               Get(frames[GetLevel_frame(w)].info), calls[w].up))]
    /\ calls' = [calls EXCEPT ![w].pc = "estimated"]

\* lines 199-209
W_Return(w) ==
    /\ calls[w].pc = "estimated"
    /\ calls' = [calls EXCEPT ![w].pc = "done",
                              ![w].outcome = GetLevel_gate(Get(frames[GetLevel_frame(w)].est),
                                                           calls[w].threshold)]
    /\ UNCHANGED frames

ConcNext ==
    \/ \E w \in Workers, i \in PoolInfos, t \in PoolThresholds :
           \E up \in (IF i = None THEN {FALSE} ELSE FloatOutcomes(Get(i))) :
               W_Analyze(w, i, t, up) /\ UNCHANGED conv /\ UNCHANGED trackVars /\ UNCHANGED callVars /\ UNCHANGED estVars
    \/ \E w \in Workers : W_NotAnalyzed(w) /\ UNCHANGED conv /\ UNCHANGED trackVars /\ UNCHANGED callVars /\ UNCHANGED estVars
    \/ \E w \in Workers : W_Estimate(w) /\ UNCHANGED conv /\ UNCHANGED trackVars /\ UNCHANGED callVars /\ UNCHANGED estVars
    \/ \E w \in Workers : W_Return(w) /\ UNCHANGED conv /\ UNCHANGED trackVars /\ UNCHANGED callVars /\ UNCHANGED estVars

ConcSpec == Init /\ [][ConcNext]_vars

----------------------------------------------------------------------------
(* src/file_converter.py : convert_file and convert_to_flac *)

\* lines 169-207: what convert_to_flac does with the input file
Convert_to_flac_operation(compression_level, input_compression_level) ==
    IF IsSome(input_compression_level) /\ Get(input_compression_level) = compression_level
    THEN "copy"
    ELSE IF compression_level = 5
    THEN IF IsSome(input_compression_level) /\ Get(input_compression_level) # 5
         THEN "reencode"
         ELSE "copy"
    ELSE "reencode"

\* lines 93-94: the call of convert_to_flac names ten arguments and no
\* input_compression_level, which keeps its default None (line 165), whatever
\* level get_flac_compression_level would estimate for the input
Convert_file_input_level(estimated) == None

OutputFormats == {"flac", "mp3"}

\* convert_file(args): output format, target level, and the level that
\* get_flac_compression_level would return for the input file
Conv_Call(fmt, level, estimated) ==
    /\ conv.pc = "idle"
    /\ conv' = [IdleConv EXCEPT !.pc = "should_convert", !.via_convert_file = TRUE,
                                !.output_format = fmt, !.compression_level = level,
                                !.estimated = Some(estimated)]

\* lines 87-89: should_convert says no
Conv_Skip ==
    /\ conv.pc = "should_convert"
    /\ conv' = [conv EXCEPT !.pc = "done", !.success = Some(TRUE)]

\* lines 92-94
Conv_ToFlac ==
    /\ conv.pc = "should_convert"
    /\ conv.output_format = "flac"
    /\ conv' = [conv EXCEPT !.pc = "to_flac",
                            !.input_compression_level =
                                Convert_file_input_level(Get(conv.estimated))]

\* lines 96-162: the other formats go through ffmpeg
Conv_Ffmpeg(ok) ==
    /\ conv.pc = "should_convert"
    /\ conv.output_format # "flac"
    /\ conv' = [conv EXCEPT !.pc = "done", !.op = "ffmpeg", !.success = Some(ok)]

\* convert_to_flac called with an input_compression_level
Conv_ToFlac_Direct(level, input_level) ==
    /\ conv.pc = "idle"
    /\ conv' = [IdleConv EXCEPT !.pc = "to_flac", !.compression_level = level,
                                !.input_compression_level = input_level]

\* lines 167-235: copy or re-encode, then metadata and tracking; any
\* exception is logged and gives (False, flac_file)
Conv_Flac(ok) ==
    /\ conv.pc = "to_flac"
    /\ conv' = [conv EXCEPT !.pc = "done",
                            !.op = Convert_to_flac_operation(conv.compression_level,
                                                             conv.input_compression_level),
                            !.success = Some(ok)]

ConvNext ==
    \/ \E fmt \in OutputFormats, level \in 0..8, estimated \in 0..8 :
           Conv_Call(fmt, level, estimated)
           /\ UNCHANGED <<calls, frames>> /\ UNCHANGED trackVars /\ UNCHANGED callVars
           /\ UNCHANGED estVars
    \/ Conv_Skip /\ UNCHANGED <<calls, frames>> /\ UNCHANGED trackVars /\ UNCHANGED callVars
           /\ UNCHANGED estVars
    \/ Conv_ToFlac /\ UNCHANGED <<calls, frames>> /\ UNCHANGED trackVars /\ UNCHANGED callVars
           /\ UNCHANGED estVars
    \/ \E ok \in BOOLEAN :
           Conv_Ffmpeg(ok)
           /\ UNCHANGED <<calls, frames>> /\ UNCHANGED trackVars /\ UNCHANGED callVars
           /\ UNCHANGED estVars
    \/ \E level \in 0..8, input_level \in {None} \cup {Some(l) : l \in 0..8} :
           Conv_ToFlac_Direct(level, input_level)
           /\ UNCHANGED <<calls, frames>> /\ UNCHANGED trackVars /\ UNCHANGED callVars
           /\ UNCHANGED estVars
    \/ \E ok \in BOOLEAN :
           Conv_Flac(ok)
           /\ UNCHANGED <<calls, frames>> /\ UNCHANGED trackVars /\ UNCHANGED callVars
           /\ UNCHANGED estVars

ConvSpec == Init /\ [][ConvNext]_vars

----------------------------------------------------------------------------
(* The pool of flac_converter.py: convert_file and the tracking file *)

\* src/db_handler.py lines 94-103: a file that is not JSON loads as {}
Load_conversion_tracking(content) ==
    IF content.state = "json" THEN content.data ELSE EmptyTracking

\* src/file_converter.py lines 36-63, on the output's mtime (None: no such
\* file) and the tracking data just loaded
Should_convert(output, data, key, forced) ==
    IF forced THEN TRUE
    ELSE IF output = None THEN TRUE
    ELSE IF data[key] = None THEN TRUE
    ELSE IF Get(output) # Get(data[key]) THEN TRUE
    ELSE FALSE

\* what a call of should_convert saw, and its result
Observation(output, data, key, forced) ==
    [output |-> output, entry |-> data[key],
     result |-> Should_convert(output, data, key, forced)]

\* mtimes: 1 and 2 are older writes of an output file, 3 the write of this
\* run's conversion, 4 a later modification
ConvertedAt == 3

\* the state a file is in when the run starts
TrackStates == {"new", "untracked", "tracked", "modified"}

TrackInit ==
    /\ CallIdle
    /\ einfo = EmptyInfo
    /\ EstIdle
    /\ float_up = FALSE
    /\ PairIdle
    /\ calls = [w \in Workers |-> IdleCall]
    /\ frames = [w \in Workers |-> IdleFrame]
    /\ conv = IdleConv
    /\ force \in BOOLEAN
    /\ \E st \in [Workers -> TrackStates] :
           /\ outputs = [w \in Workers |->
                             IF st[w] = "new" THEN None
                             ELSE IF st[w] = "modified" THEN Some(2) ELSE Some(1)]
           /\ tracking = Json([k \in TrackKeys |->
                                  IF k = 0 THEN Some(1)
                                  ELSE IF st[k] \in {"tracked", "modified"} THEN Some(1)
                                  ELSE None])
           /\ wk = [w \in Workers |->
                        [IdleWorker EXCEPT !.tracked_before =
                                               st[w] \in {"tracked", "modified"}]]

AllDone == \A w \in Workers : wk[w].pc = "done"

\* file_converter.py lines 86-89: should_convert; no: return (True, output_file)
T_ShouldConvert(w) ==
    /\ wk[w].pc = "start"
    /\ LET obs == Observation(outputs[w], Load_conversion_tracking(tracking), w, force)
       IN  wk' = [wk EXCEPT ![w].seen = Some(obs),
                            ![w].pc = IF obs.result THEN "convert" ELSE "done"]
    /\ UNCHANGED <<tracking, outputs, force>>

\* lines 92-155 (or convert_to_flac lines 167-227): the conversion writes the
\* output file; a failed conversion returns (False, flac_file) untracked
T_Convert(w, ok) ==
    /\ wk[w].pc = "convert"
    /\ IF ok
       THEN /\ outputs' = [outputs EXCEPT ![w] = Some(ConvertedAt)]
            /\ wk' = [wk EXCEPT ![w].pc = "load", ![w].converted = TRUE]
       ELSE /\ wk' = [wk EXCEPT ![w].pc = "done"]
            /\ UNCHANGED outputs
    /\ UNCHANGED <<tracking, force>>

\* db_handler.py line 107
T_Load(w) ==
    /\ wk[w].pc = "load"
    /\ wk' = [wk EXCEPT ![w].pc = "open",
                        ![w].data = Load_conversion_tracking(tracking)]
    /\ UNCHANGED <<tracking, outputs, force>>

\* lines 110-121: the worker's own entry, then open(tracking_file, 'w'),
\* which truncates the file
T_Open(w) ==
    /\ wk[w].pc = "open"
    /\ wk' = [wk EXCEPT ![w].pc = "dump",
                        ![w].data = [@ EXCEPT ![w] = IF outputs[w] = None THEN Some(0)
                                                      ELSE outputs[w]]]
    /\ tracking' = EmptyFile
    /\ UNCHANGED <<outputs, force>>

\* line 122 and the close: the text is written from offset 0.  When
\* another worker has written since this one opened the file, the new text
\* overlays the other's, and what is left is this worker's JSON (clean) or
\* its JSON followed by the tail of the longer text (not clean)
T_Dump(w, clean) ==
    /\ wk[w].pc = "dump"
    /\ tracking' = IF tracking.state = "empty" \/ clean THEN Json(wk[w].data)
                   ELSE CorruptFile
    /\ wk' = [wk EXCEPT ![w].pc = "done"]
    /\ UNCHANGED <<outputs, force>>

\* after the run the output file is modified / removed
Env_Touch(w) ==
    /\ AllDone
    /\ wk[w].later = None
    /\ outputs[w] # None
    /\ outputs[w] # Some(4)
    /\ outputs' = [outputs EXCEPT ![w] = Some(4)]
    /\ UNCHANGED <<tracking, wk, force>>

Env_Remove(w) ==
    /\ AllDone
    /\ wk[w].later = None
    /\ outputs[w] # None
    /\ outputs' = [outputs EXCEPT ![w] = None]
    /\ UNCHANGED <<tracking, wk, force>>

\* should_convert for the same input and output in a later run
\* (flac_converter.py line 233, file_converter.py line 87)
T_Later(w) ==
    /\ AllDone
    /\ wk[w].later = None
    /\ wk' = [wk EXCEPT ![w].later =
                  Some(Observation(outputs[w], Load_conversion_tracking(tracking), w, force))]
    /\ UNCHANGED <<tracking, outputs, force>>

TrackNext ==
    \/ \E w \in Workers :
           T_ShouldConvert(w)
           /\ UNCHANGED <<calls, frames, conv>> /\ UNCHANGED callVars /\ UNCHANGED estVars
    \/ \E w \in Workers, ok \in BOOLEAN :
           T_Convert(w, ok)
           /\ UNCHANGED <<calls, frames, conv>> /\ UNCHANGED callVars /\ UNCHANGED estVars
    \/ \E w \in Workers :
           T_Load(w)
           /\ UNCHANGED <<calls, frames, conv>> /\ UNCHANGED callVars /\ UNCHANGED estVars
    \/ \E w \in Workers :
           T_Open(w)
           /\ UNCHANGED <<calls, frames, conv>> /\ UNCHANGED callVars /\ UNCHANGED estVars
    \/ \E w \in Workers, clean \in BOOLEAN :
           T_Dump(w, clean)
           /\ UNCHANGED <<calls, frames, conv>> /\ UNCHANGED callVars /\ UNCHANGED estVars
    \/ \E w \in Workers :
           Env_Touch(w)
           /\ UNCHANGED <<calls, frames, conv>> /\ UNCHANGED callVars /\ UNCHANGED estVars
    \/ \E w \in Workers :
           Env_Remove(w)
           /\ UNCHANGED <<calls, frames, conv>> /\ UNCHANGED callVars /\ UNCHANGED estVars
    \/ \E w \in Workers :
           T_Later(w)
           /\ UNCHANGED <<calls, frames, conv>> /\ UNCHANGED callVars /\ UNCHANGED estVars

TrackSpec == TrackInit /\ [][TrackNext]_vars

----------------------------------------------------------------------------
(* Properties of get_flac_compression_level, checked under Spec *)

Returned == pc = "done" /\ ~raised

\* the call went through the gate of lines 201-206 with a numeric threshold
Gated == Returned /\ IsSome(est) /\ Get(est).exc = "none" /\ IsNum(threshold)

\* the probe ran both analysis commands and parsed their output
FullAnalysis == IsSome(info) /\ ~Get(info).limited_analysis

\* C1: for every path, probe outcome and threshold, get_flac_compression_level
\* returns an integer in 0..8 and no exception leaves it.
C1_ReturnsLevelNeverRaises ==
    /\ ~raised
    /\ pc = "done" => IsSome(ret) /\ Get(ret) \in 0..8

\* a full analysis whose ratio is below every range, returned as the closest level 8
C1_Witness ==
    /\ Returned
    /\ FullAnalysis
    /\ IsSome(Get(info).compression_ratio)
    /\ RLt(Get(Get(info).compression_ratio), Q(50, 100))
    /\ ret = Some(8)

\* estimation failed: no file, no probe result, a limited-analysis probe result,
\* or an exception in the estimator
C2_EstimationFailed ==
    /\ pc = "done"
    /\ \/ ~file.exists
       \/ info = None
       \/ Get(info).limited_analysis
       \/ IsSome(est) /\ Get(est).exc # "none"

\* C2: whenever estimation fails inside get_flac_compression_level, the value
\* returned is exactly the default level 5, whatever the threshold.
C2_FailureReturnsDefault ==
    C2_EstimationFailed => ~raised /\ ret = Some(5)

\* the estimator raised on a ratio that is not a number, and 5 came back
C2_Witness ==
    /\ Returned
    /\ IsSome(est)
    /\ Get(est).exc = "TypeError"
    /\ ret = Some(5)

C4_UnreachableThreshold ==
    /\ (IsSome(est) /\ Get(est).exc = "none") => RLt(Get(est).conf, Q(11, 10))
    /\ (pc = "done" /\ threshold = Q(11, 10)) => ret = Some(5)

\* the largest confidence, 1.0, for a level other than 5, gated at 1.1
C4_Witness ==
    /\ Gated
    /\ threshold = Q(11, 10)
    /\ Get(est).conf = ROne
    /\ Get(est).level # Some(5)
    /\ ret = Some(5)

\* C5: with threshold 0.0 the call returns the estimator's own level whenever
\* the estimator produced one; no confidence the estimator produces is below 0.
C5_ZeroThreshold ==
    /\ (IsSome(est) /\ Get(est).exc = "none") => RLe(RZero, Get(est).conf)
    /\ (Gated /\ threshold = RZero /\ IsSome(Get(est).level)) => ret = Get(est).level

\* the smallest confidence, 0, for a level other than 5, gated at 0.0
C5_Witness ==
    /\ Gated
    /\ threshold = RZero
    /\ Get(est).conf = RZero
    /\ ret = Get(est).level
    /\ ret # Some(5)

\* the version check failed: the limited-analysis result of lines 32-35
ToolsAbsent ==
    /\ file.exists
    /\ IsSome(info)
    /\ Get(info).limited_analysis
    /\ ~Get(info).error

\* C6: when the flac/metaflac binaries are absent, get_flac_compression_level
\* on an existing file returns exactly 5 for every threshold.
C6_ToolsAbsentReturnsDefault ==
    (pc = "done" /\ ToolsAbsent) => ~raised /\ ret = Some(5)

\* binaries absent and a threshold not above the limited-analysis confidence 0.1
C6_Witness ==
    /\ Returned
    /\ ToolsAbsent
    /\ Len(spawned) <= 2
    /\ IsNum(threshold)
    /\ RLe(threshold, Q(1, 10))
    /\ ret = Some(5)

----------------------------------------------------------------------------
(* Properties of the two estimate_compression_level functions, checked under EstSpec *)

\* the function returned a (level, confidence) pair
ReturnedA == IsSome(resA) /\ Get(resA).exc = "none"
ReturnedD == IsSome(resD) /\ Get(resD).exc = "none"

\* the input passes the required-keys check and the ratio is a number
HasRatio ==
    /\ IsSome(einfo.compression_ratio)
    /\ IsNum(Get(einfo.compression_ratio))
    /\ IsSome(einfo.min_blocksize)
    /\ IsSome(einfo.max_blocksize)

\* the function went past the insufficient-data returns, into the table lookup
LookedUpA == ReturnedA /\ HasRatio
LookedUpD == ReturnedD /\ HasRatio /\ ~einfo.limited_analysis

IsLevel(l) == l = None \/ Get(l) \in 0..8

\* C7: in both implementations the level returned by estimate_compression_level
\* is absent or an integer in 0..8, in the matched, no-match and
\* insufficient-data paths.
C7_LevelIsBinOrAbsent ==
    /\ ReturnedA => IsLevel(Get(resA).level)
    /\ ReturnedD => IsLevel(Get(resD).level)

\* the no-match path on a ratio below every range: both return level 8
C7_Witness ==
    /\ LookedUpA
    /\ LookedUpD
    /\ RLt(Get(einfo.compression_ratio), Q(50, 100))
    /\ Get(resA).level = Some(8)
    /\ Get(resD).level = Some(8)

InUnitInterval(q) == RLe(RZero, q) /\ RLe(q, ROne)

\* C8: for every finite input, min_framesize > max_framesize included, the
\* confidence returned by estimate_compression_level is in [0,1], in both
\* implementations.
C8_ConfidenceInUnitInterval ==
    /\ ReturnedA => InUnitInterval(Get(resA).conf)
    /\ ReturnedD => InUnitInterval(Get(resD).conf)

\* the pairs <<lo, hi>> of levels whose ranges share a boundary: min(lo) = max(hi)
SharedBoundaries ==
    {p \in (0..8) \X (0..8) : p[1] < p[2] /\ D_min_ratio(p[1]) = D_max_ratio(p[2])}

\* the ratio given to the estimators is the boundary shared by levels p[1] and p[2]
AtBoundary(p) ==
    /\ IsSome(einfo.compression_ratio)
    /\ Get(einfo.compression_ratio) = D_min_ratio(p[1])

\* at the boundary both ranges are matches with centrality 0, in both tables
BothMatchWithZeroCentrality(p) ==
    LET ratio == Get(einfo.compression_ratio)
    IN  /\ \A l \in {p[1], p[2]} :
               /\ D_in_range(ratio, l) /\ D_centrality(ratio, l) = RZero
               /\ A_in_range(ratio, l) /\ A_centrality(ratio, l) = RZero

\* C9 as stated: at a boundary shared by two ranges both are matches with
\* centrality 0 and the level chosen is the lower-indexed of the two.
C9_LowerIndexedWins ==
    \A p \in SharedBoundaries :
        AtBoundary(p) =>
            /\ BothMatchWithZeroCentrality(p)
            /\ LookedUpA => Get(resA).level = Some(p[1])
            /\ LookedUpD => Get(resD).level = Some(p[1])

\* C9 amended: at a boundary shared by two ranges both are matches with
\* centrality 0, and the level chosen is the level between the two, whose
\* range holds the ratio in its interior with a positive centrality.
C9_LevelBetweenWins ==
    \A p \in SharedBoundaries :
        AtBoundary(p) =>
            /\ BothMatchWithZeroCentrality(p)
            /\ p[2] = p[1] + 2
            /\ RLt(RZero, D_centrality(Get(einfo.compression_ratio), p[1] + 1))
            /\ RLt(RZero, A_centrality(Get(einfo.compression_ratio), p[1] + 1))
            /\ LookedUpA => Get(resA).level = Some(p[1] + 1)
            /\ LookedUpD => Get(resD).level = Some(p[1] + 1)

\* ratio 0.70, the boundary of levels 0 and 2: both functions return level 1
C9_Witness ==
    /\ AtBoundary(<<0, 2>>)
    /\ <<0, 2>> \in SharedBoundaries
    /\ LookedUpA
    /\ LookedUpD
    /\ Get(resA).level = Some(1)
    /\ Get(resD).level = Some(1)

\* ratio=0.59, min_block=max_block=4096, min_frame=10, max_frame=20
C10_Input ==
    [EmptyInfo EXCEPT !.compression_ratio = Some(Q(59, 100)),
                      !.min_blocksize = Some(4096), !.max_blocksize = Some(4096),
                      !.min_framesize = Some(10), !.max_framesize = Some(20)]

\* C10 as stated: for this input the only matching range is level 5's, and
\* flac_analyzer returns level 5 with centrality 0.4 and confidence 0.38.
C10_Level5 ==
    (einfo = C10_Input /\ IsSome(resA)) =>
        /\ A_matches(Q(59, 100)) = << <<5, Q(4, 10)>> >>
        /\ Get(resA) = Result(Some(5), Q(38, 100))

\* C10 amended: for this input the matching ranges are level 5's (centrality
\* 0.4) and level 6's (centrality 0.5), and flac_analyzer returns level 6 with
\* centrality 0.5 and confidence 0.45.
C10_Level6 ==
    (einfo = C10_Input /\ IsSome(resA)) =>
        /\ A_matches(Q(59, 100)) = << <<5, Q(4, 10)>>, <<6, Q(5, 10)>> >>
        /\ Get(resA) = Result(Some(6), Q(45, 100))

\* flac_analyzer's estimator has been applied to the input
C10_Witness ==
    /\ einfo = C10_Input
    /\ ReturnedA
    /\ Get(resA).level = Some(6)

\* one of the three required keys is not in the info
MissingRequired ==
    \/ ~IsSome(einfo.compression_ratio)
    \/ ~IsSome(einfo.min_blocksize)
    \/ ~IsSome(einfo.max_blocksize)

\* C12: if compression_ratio, min_blocksize or max_blocksize is absent the
\* result is the insufficient-data result, whatever the other fields are:
\* (absent, 0) in flac_analyzer and (5, 0.1) in flac_level_detection, which
\* also returns (5, 0.1) for every limited-analysis info.
C12_InsufficientData ==
    /\ (IsSome(resA) /\ MissingRequired) =>
           /\ Get(resA) = Result(None, RZero)
           /\ metricsA = Some(MissingInformation)
    /\ (IsSome(resD) /\ (MissingRequired \/ einfo.limited_analysis)) =>
           Get(resD) = Result(Some(5), Q(1, 10))

\* a ratio in the middle of level 0's range, but no min_blocksize: no lookup
C12_Witness ==
    /\ einfo.compression_ratio = Some(Q(85, 100))
    /\ ~IsSome(einfo.min_blocksize)
    /\ IsSome(einfo.max_blocksize)
    /\ ~einfo.limited_analysis
    /\ IsSome(resA) /\ Get(resA) = Result(None, RZero)
    /\ IsSome(resD) /\ Get(resD) = Result(Some(5), Q(1, 10))

\* C13: estimate_compression_level raises no exception for an info that has
\* compression_ratio, min_blocksize and max_blocksize (min_blocksize = 0 with
\* max_blocksize > 0, missing frame-size fields included).
C13_NoException ==
    HasRatio =>
        /\ IsSome(resA) => Get(resA).exc = "none"
        /\ IsSome(resD) => Get(resD).exc = "none"

\* the ratio lies in no row of the table
NoMatch(ratio) ==
    \A l \in 0..8 : ~(RLe(D_level_ranges[l + 1][1], ratio)
                      /\ RLe(ratio, D_level_ranges[l + 1][2]))

\* distance from the ratio to the nearer boundary of row l
NearerBoundary(ratio, l) ==
    LET lo == RAbs(RSub(ratio, D_level_ranges[l + 1][1]))
        hi == RAbs(RSub(ratio, D_level_ranges[l + 1][2]))
    IN  IF RLt(hi, lo) THEN hi ELSE lo

\* l is the lowest level among those whose nearer boundary is closest to the ratio
IsClosest(ratio, l) ==
    /\ l \in 0..8
    /\ \A k \in 0..8 :
           /\ RLe(NearerBoundary(ratio, l), NearerBoundary(ratio, k))
           /\ k < l => RLt(NearerBoundary(ratio, l), NearerBoundary(ratio, k))

\* C14: when the ratio lies in no range, estimate_compression_level returns
\* the level whose nearer boundary is closest to the ratio (lowest index on
\* ties) with confidence exactly 0.5, whatever the block and frame sizes.
C14_NoMatchClosest ==
    LET ratio == Get(einfo.compression_ratio)
    IN  /\ (LookedUpA /\ NoMatch(ratio)) =>
               /\ IsSome(Get(resA).level)
               /\ IsClosest(ratio, Get(Get(resA).level))
               /\ Get(resA).conf = Q(5, 10)
        /\ (LookedUpD /\ NoMatch(ratio)) =>
               /\ IsSome(Get(resD).level)
               /\ IsClosest(ratio, Get(Get(resD).level))
               /\ Get(resD).conf = Q(5, 10)

\* a ratio above 1.00 with variable block sizes and unequal frame sizes:
\* level 0 with confidence 0.5 from both functions
C14_Witness ==
    /\ LookedUpA
    /\ LookedUpD
    /\ RLt(ROne, Get(einfo.compression_ratio))
    /\ einfo.min_blocksize # einfo.max_blocksize
    /\ einfo.min_framesize # einfo.max_framesize
    /\ Get(resA) = Result(Some(0), Q(5, 10))
    /\ Get(resD) = Result(Some(0), Q(5, 10))

\* row l contains the ratio, bounds included
Contains(ratio, l) ==
    RLe(D_level_ranges[l + 1][1], ratio) /\ RLe(ratio, D_level_ranges[l + 1][2])

\* 1 - |(ratio - min)/(max - min) - 0.5| * 2, as (size - |2(ratio - min) - size|) / size
CentralityOf(ratio, l) ==
    LET lo == D_level_ranges[l + 1][1]
        size == RSub(D_level_ranges[l + 1][2], lo)
    IN  RDiv(RSub(size, RAbs(RSub(RMul(Q(2, 1), RSub(ratio, lo)), size))), size)

\* l is the lowest level among the matches of highest centrality
IsMostCentral(ratio, l) ==
    /\ l \in 0..8
    /\ Contains(ratio, l)
    /\ \A k \in 0..8 :
           Contains(ratio, k) =>
               /\ RLe(CentralityOf(ratio, k), CentralityOf(ratio, l))
               /\ k < l => RLt(CentralityOf(ratio, k), CentralityOf(ratio, l))

\* both functions, where they matched, returned the lowest level among the
\* matches of highest centrality
MostCentralLowestIndex ==
    LET ratio == Get(einfo.compression_ratio)
    IN  /\ (LookedUpA /\ ~NoMatch(ratio)) =>
               IsSome(Get(resA).level) /\ IsMostCentral(ratio, Get(Get(resA).level))
        /\ (LookedUpD /\ ~NoMatch(ratio)) =>
               IsSome(Get(resD).level) /\ IsMostCentral(ratio, Get(Get(resD).level))

Clamp01(q) == IF RLt(q, RZero) THEN RZero ELSE IF RLt(ROne, q) THEN ROne ELSE q

\* the largest centrality among the rows that contain the ratio
IsBestCentrality(ratio, c) ==
    /\ \E l \in 0..8 : Contains(ratio, l) /\ CentralityOf(ratio, l) = c
    /\ \A l \in 0..8 : Contains(ratio, l) => RLe(CentralityOf(ratio, l), c)

\* 0.7*centrality + 0.2*framesize_efficiency + 0.1*min(1, blocksize_variability)
\* for the info given to the estimator
BlendOf(c) ==
    LET fe == IF Get(einfo.max_framesize) > 0
              THEN RSub(ROne, Q(Get(einfo.min_framesize), Get(einfo.max_framesize)))
              ELSE RZero
        bv == IF einfo.min_blocksize = einfo.max_blocksize THEN RZero
              ELSE Q(Get(einfo.max_blocksize), Get(einfo.min_blocksize))
        bv1 == IF RLt(ROne, bv) THEN ROne ELSE bv
    IN  RAdd(RAdd(RMul(Q(7, 10), c), RMul(Q(2, 10), fe)), RMul(Q(1, 10), bv1))

\* C16: in the matched path of flac_analyzer the confidence returned is
\* 0.7*centrality + 0.2*framesize_efficiency + 0.1*min(1, blocksize_variability)
\* with the centrality of the chosen range, clamped to [0,1].
C16_BlendClamped ==
    LET ratio == Get(einfo.compression_ratio)
    IN  (LookedUpA /\ ~NoMatch(ratio)) =>
            \E l \in 0..8 :
                /\ IsBestCentrality(ratio, CentralityOf(ratio, l))
                /\ Get(resA).conf = Clamp01(BlendOf(CentralityOf(ratio, l)))

\* the same without the clamp: what line 158 computes
Line158Blend ==
    LET ratio == Get(einfo.compression_ratio)
    IN  (LookedUpA /\ ~NoMatch(ratio)) =>
            \E l \in 0..8 :
                /\ IsBestCentrality(ratio, CentralityOf(ratio, l))
                /\ Get(resA).conf = BlendOf(CentralityOf(ratio, l))

\* C17: for every info with min_blocksize = max_blocksize, both 0 included,
\* blocksize_variability is 0; otherwise it is max_blocksize / min_blocksize.
C17_BlocksizeVariability ==
    LookedUpA =>
        Get(metricsA).blocksize_variability =
            IF Get(einfo.min_blocksize) = Get(einfo.max_blocksize) THEN RZero
            ELSE Q(Get(einfo.max_blocksize), Get(einfo.min_blocksize))

\* both block sizes 0: the metrics come back with blocksize_variability 0
C17_Witness ==
    /\ LookedUpA
    /\ einfo.min_blocksize = Some(0)
    /\ einfo.max_blocksize = Some(0)
    /\ Get(metricsA).blocksize_variability = RZero

\* the estimator has read every key it needs up to the frame sizes without raising
ReachesFrameSizes ==
    /\ HasRatio
    /\ (einfo.min_blocksize = einfo.max_blocksize \/ Get(einfo.min_blocksize) # 0)

\* C18: for every info with max_framesize = 0, framesize_efficiency is 0 and no
\* division is attempted; for max_framesize > 0 it is 1 - min_framesize/max_framesize.
C18_FramesizeEfficiency ==
    /\ (IsSome(resA) /\ ReachesFrameSizes /\ einfo.max_framesize = Some(0)) =>
           /\ Get(resA).exc = "none"
           /\ Get(metricsA).framesize_efficiency = RZero
    /\ (LookedUpA /\ Get(einfo.max_framesize) > 0) =>
           Get(metricsA).framesize_efficiency =
               RSub(ROne, Q(Get(einfo.min_framesize), Get(einfo.max_framesize)))

\* max_framesize 0 with a positive min_framesize: efficiency 0, no exception
C18_Witness ==
    /\ LookedUpA
    /\ einfo.max_framesize = Some(0)
    /\ einfo.min_framesize = Some(20)
    /\ Get(metricsA).framesize_efficiency = RZero

\* the info given to the estimators, with other frame sizes
WithFrameSizes(lo, hi) == [einfo EXCEPT !.min_framesize = lo, !.max_framesize = hi]

\* C25: in the matched path of flac_level_detection the confidence is the
\* centrality of the chosen range times 1.2, capped at 1.0, when the block
\* sizes agree with the level (equal and level <= 2, or different and
\* level >= 3), and times 0.8 otherwise; the frame sizes do not affect the result.
C25_ParityAdjustment ==
    LET ratio == Get(einfo.compression_ratio)
    IN  (LookedUpD /\ ~NoMatch(ratio)) =>
            LET l == Get(Get(resD).level)
                c == CentralityOf(ratio, l)
                fixed == Get(einfo.min_blocksize) = Get(einfo.max_blocksize)
                agrees == (fixed /\ l <= 2) \/ (~fixed /\ l >= 3)
                boosted == RMul(c, Q(12, 10))
            IN  /\ Contains(ratio, l)
                /\ IsBestCentrality(ratio, c)
                /\ Get(resD).conf = IF agrees
                                    THEN IF RLt(ROne, boosted) THEN ROne ELSE boosted
                                    ELSE RMul(c, Q(8, 10))
                /\ \A f \in {<<None, None>>, <<Some(20), Some(10)>>} :
                       D_estimate_compression_level(WithFrameSizes(f[1], f[2]), float_up)
                           = Get(resD)

\* ratio 0.625, the middle of level 4's range, with different block sizes and
\* no frame sizes: centrality 1.0, boosted to 1.2 and capped at 1.0
C25_Witness ==
    /\ LookedUpD
    /\ einfo.compression_ratio = Some(Q(625, 1000))
    /\ einfo.min_blocksize = Some(1152)
    /\ einfo.max_blocksize = Some(4096)
    /\ einfo.min_framesize = None
    /\ einfo.max_framesize = None
    /\ Get(resD) = Result(Some(4), ROne)

\* the ratio is below 0.50 / above 1.00
BelowTable(ratio) == RLt(ratio, Q(50, 100))
AboveTable(ratio) == RLt(Q(100, 100), ratio)

\* C28: the 9 ranges cover [0.50, 1.00] with no gap: a ratio matches no range
\* if and only if it is below 0.50 or above 1.00, and in that no-match path
\* the estimator returns level 8 for every ratio below 0.50 and level 0 for
\* every ratio above 1.00.
C28_RangesCoverHalfToOne ==
    LET ratio == Get(einfo.compression_ratio)
        outside == BelowTable(ratio) \/ AboveTable(ratio)
    IN  /\ LookedUpD =>
               /\ D_matches(ratio) = <<>> <=> outside
               /\ BelowTable(ratio) => Get(resD) = Result(Some(8), Q(5, 10))
               /\ AboveTable(ratio) => Get(resD) = Result(Some(0), Q(5, 10))
        /\ LookedUpA =>
               /\ A_matches(ratio) = <<>> <=> outside
               /\ BelowTable(ratio) => Get(resA) = Result(Some(8), Q(5, 10))
               /\ AboveTable(ratio) => Get(resA) = Result(Some(0), Q(5, 10))

\* ratio 0, far below every range: no match, level 8 from both functions
C28_Witness ==
    /\ LookedUpA
    /\ LookedUpD
    /\ einfo.compression_ratio = Some(Q(0, 1))
    /\ D_matches(Q(0, 1)) = <<>>
    /\ Get(resA).level = Some(8)
    /\ Get(resD).level = Some(8)

\* compression_ratio, block sizes and frame sizes present, min_blocksize > 0,
\* no limited_analysis flag
C30_Info ==
    /\ HasRatio
    /\ Get(einfo.min_blocksize) > 0
    /\ IsSome(einfo.min_framesize)
    /\ IsSome(einfo.max_framesize)
    /\ ~einfo.limited_analysis

\* C30: for every info with compression_ratio, min_blocksize, max_blocksize and
\* frame sizes present (min_blocksize > 0, no limited_analysis flag) the two
\* implementations return the same level, and the same confidence 0.5 in the
\* no-match path; they differ only in the confidence of the matched path.
C30_SameLevel ==
    (C30_Info /\ IsSome(resA) /\ IsSome(resD)) =>
        /\ ReturnedA
        /\ ReturnedD
        /\ Get(resA).level = Get(resD).level
        /\ NoMatch(Get(einfo.compression_ratio)) =>
               /\ Get(resA).conf = Q(5, 10)
               /\ Get(resD).conf = Q(5, 10)

\* ratio 0.59 with equal block sizes and frame sizes 10 and 20: level 6 from
\* both, confidence 0.45 from flac_analyzer and 0.4 from flac_level_detection
C30_Witness ==
    /\ einfo = C10_Input
    /\ C30_Info
    /\ IsSome(resA) /\ Get(resA) = Result(Some(6), Q(45, 100))
    /\ IsSome(resD) /\ Get(resD) = Result(Some(6), Q(40, 100))

----------------------------------------------------------------------------
(* Properties of the estimators on two ratios, checked under PairSpec *)

\* the level returned for the first / second ratio
LevelOf(res) == Get(Get(res).level)

\* the middle of the table's range of level l
Midpoint(l) ==
    RDiv(RAdd(D_level_ranges[l + 1][1], D_level_ranges[l + 1][2]), Q(2, 1))

\* C29: the estimated level is monotonically non-increasing in the ratio: for
\* two ratios r1 < r2 with the three required fields present, the level chosen
\* for r1 is greater than or equal to the level chosen for r2; and every level
\* 0..8 is chosen for at least one ratio in [0.50, 1.00] (the middle of its range).
C29_LevelNonIncreasing ==
    /\ (IsSome(resD) /\ IsSome(resD2)) => LevelOf(resD) >= LevelOf(resD2)
    /\ (IsSome(resA) /\ IsSome(resA2)) => LevelOf(resA) >= LevelOf(resA2)
    /\ \A l \in 0..8 :
           /\ einfo.compression_ratio = Some(Midpoint(l)) =>
                  /\ RLe(Q(50, 100), Midpoint(l)) /\ RLe(Midpoint(l), Q(100, 100))
                  /\ IsSome(resD) => LevelOf(resD) = l
                  /\ IsSome(resA) => LevelOf(resA) = l
           /\ Midpoint(l) \in PairRatios

\* 0.57, where the ranges of levels 6 and 7 are equally central, and 0.575:
\* whichever way the tie goes, the level for 0.575 is not above it
C29_Witness ==
    /\ einfo.compression_ratio = Some(Q(570, 1000))
    /\ einfo2.compression_ratio = Some(Q(575, 1000))
    /\ float_up
    /\ IsSome(resD) /\ LevelOf(resD) = 7
    /\ IsSome(resD2) /\ LevelOf(resD2) = 6
    /\ IsSome(resA) /\ LevelOf(resA) = 7
    /\ IsSome(resA2) /\ LevelOf(resA2) = 6

----------------------------------------------------------------------------
(* Properties of the estimators followed by the gate, checked under GateSpec *)

\* file_size = 0 and every other field absent
C11_Info == [EmptyInfo EXCEPT !.file_size = Some(0)]

----------------------------------------------------------------------------
(* Properties of the two analyze_flac_file functions, checked under ProbeSpec *)

\* analyze_flac_file returned the dictionary parsed from the two outputs
Parsed ==
    /\ pc \in {"analyzed", "a_analyzed"}
    /\ IsSome(flac_out)
    /\ IsSome(metaflac_out)
    /\ IsSome(info)

\* the flac output had the three stream fields / the duration
OutputHasStreamFields ==
    /\ IsSome(Get(flac_out).sample_rate)
    /\ IsSome(Get(flac_out).channels)
    /\ IsSome(Get(flac_out).bits_per_sample)
OutputHasDuration == IsSome(Get(flac_out).duration)

\* the dictionary has a compression ratio computed by the probe
HasComputedRatio ==
    /\ IsSome(Get(info).compression_ratio)
    /\ IsNum(Get(Get(info).compression_ratio))

\* C19 as stated: uncompressed_size is present only if sample_rate, channels,
\* bits_per_sample and duration are all present in the probe output, and
\* compression_ratio only if uncompressed_size is present and greater than 0.
C19_AbsencePropagates ==
    Parsed =>
        /\ IsSome(Get(info).uncompressed_size) =>
               OutputHasStreamFields /\ OutputHasDuration
        /\ HasComputedRatio =>
               /\ IsSome(Get(info).uncompressed_size)
               /\ Get(Get(info).uncompressed_size) > 0

\* C19 amended: uncompressed_size is present exactly if sample_rate, channels
\* and bits_per_sample are all present in the probe output; a missing duration
\* is read as 0 and gives uncompressed_size 0; a compression_ratio is computed
\* exactly if uncompressed_size is present and greater than 0.
C19_DurationDefaultsToZero ==
    Parsed =>
        /\ IsSome(Get(info).uncompressed_size) <=> OutputHasStreamFields
        /\ (OutputHasStreamFields /\ ~OutputHasDuration) =>
               Get(info).uncompressed_size = Some(0)
        /\ HasComputedRatio <=>
               /\ IsSome(Get(info).uncompressed_size)
               /\ Get(Get(info).uncompressed_size) > 0

\* flac_level_detection, the output lacking only the duration:
\* uncompressed_size is 0 and there is no compression ratio
C19_Witness ==
    /\ Parsed
    /\ pc = "analyzed"
    /\ OutputHasStreamFields
    /\ ~OutputHasDuration
    /\ Get(info).uncompressed_size = Some(0)
    /\ Get(info).compression_ratio = None

\* analyze_flac_file has returned, or has raised to its caller
ProbeReturned == pc \in {"analyzed", "a_analyzed"}
ProbeRaised == pc \in {"except", "a_raised"}

\* C20: probing a path that does not exist fails with a NotFound error raised
\* to the direct caller of analyze_flac_file, before any external process is
\* spawned, and no other probe failure is raised to that caller.
C20_NotFoundRaised ==
    /\ ((ProbeReturned \/ ProbeRaised) /\ ~file.exists) =>
           /\ ProbeRaised
           /\ exc \in {"FileNotFoundError", "OSError"}
           /\ spawned = <<>>
    /\ ProbeRaised => ~file.exists

\* an external command of the probe was not installed or exited with a
\* non-zero status: the probe ended without both outputs
ToolFailed ==
    /\ ProbeReturned
    /\ file.exists
    /\ spawned # <<>>
    /\ (flac_out = None \/ metaflac_out = None)

\* both commands ran, and a line that has to be a number is not one
UnparsableOutput ==
    /\ ProbeReturned
    /\ file.exists
    /\ IsSome(flac_out)
    /\ IsSome(metaflac_out)
    /\ \/ Len(Get(metaflac_out)) >= 4 /\ \E i \in 1..4 : Get(metaflac_out)[i] = Bad
       \/ /\ OutputHasStreamFields
          /\ \/ Get(flac_out).sample_rate = Some(Bad)
             \/ Get(flac_out).channels = Some(Bad)
             \/ Get(flac_out).bits_per_sample = Some(Bad)
             \/ Get(flac_out).duration = Some(Bad)

\* a dictionary with the size of the file and no stream field
IsLimitedAnalysis(i) ==
    /\ IsSome(i)
    /\ Get(i).file_size = Some(file.size)
    /\ Get(i).sample_rate = None
    /\ Get(i).channels = None
    /\ Get(i).bits_per_sample = None
    /\ Get(i).duration = None
    /\ Get(i).min_blocksize = None
    /\ Get(i).max_blocksize = None
    /\ Get(i).min_framesize = None
    /\ Get(i).max_framesize = None
    /\ Get(i).compression_ratio = None

\* C21: for an existing file, when the external tools are not installed, exit
\* with a non-zero status or produce unparsable output, analyze_flac_file
\* returns a limited-analysis info with file_size populated and every stream
\* field absent, rather than returning nothing or raising.
C21_LimitedAnalysisOnFailure ==
    (ToolFailed \/ UnparsableOutput) => IsLimitedAnalysis(info)

\* the commands of the probe, version checks included
ProbeCommands == {"flac --version", "metaflac --version", "flac --analyze", "metaflac --show"}

\* how many times the call spawned command c
SpawnCount(c) == Cardinality({i \in 1..Len(spawned) : spawned[i] = c})

\* C22: each probe call spawns at most two external processes in total, each
\* command at most once, and none after a command has failed.
C22_AtMostTwoProcesses ==
    /\ Len(spawned) <= 2
    /\ \A c \in ProbeCommands : SpawnCount(c) <= 1
    /\ (ProbeReturned /\ flac_out = None) => SpawnCount("metaflac --show") = 0

----------------------------------------------------------------------------
(* Properties of concurrent get_flac_compression_level calls, checked under ConcSpec *)

\* C23: estimator invocations share no mutable state: for any interleaving of
\* concurrent get_flac_compression_level calls from different workers on
\* different files, each call returns the level it would return if run alone
\* on the same probe output.
C23_SameAsAlone ==
    \A w \in Workers :
        calls[w].pc = "done" =>
            calls[w].outcome =
                GetLevel_alone(calls[w].given, calls[w].threshold, calls[w].up)

\* worker 1 has returned level 0 for its file while worker 2, given a ratio
\* below the table, is between its estimate and its return
C23_Witness ==
    /\ calls[1].pc = "done"
    /\ calls[1].given = Some(InfoWithRatio(Q(85, 100)))
    /\ calls[1].outcome = Some(Some(0))
    /\ calls[2].pc = "estimated"
    /\ calls[2].given = Some(InfoWithRatio(Q(49, 100)))
    /\ Get(frames[2].est).level = Some(8)

----------------------------------------------------------------------------
(* Properties of convert_file and convert_to_flac, checked under ConvSpec *)

\* a FLAC-to-FLAC conversion has copied or re-encoded the input
FlacToFlac == conv.pc = "done" /\ conv.op \in {"copy", "reencode"}

\* the input is copied when its level is known and equals the target, or when
\* the target is 5 and the input level is unknown or 5; re-encoded otherwise
CopyWhenLevelsMatch ==
    FlacToFlac =>
        LET target == conv.compression_level
            known == conv.input_compression_level
        IN  conv.op = IF \/ IsSome(known) /\ Get(known) = target
                         \/ target = 5 /\ (known = None \/ known = Some(5))
                      THEN "copy"
                      ELSE "reencode"

\* convert_file gave convert_to_flac the level estimated for the input file
EstimatedLevelPassed ==
    (FlacToFlac /\ conv.via_convert_file) => conv.input_compression_level = conv.estimated

\* C26: FLAC-to-FLAC conversion copies the input when the input level is known
\* and equals the target level, or when the target is 5 and the input level is
\* unknown or 5, and re-encodes at the target level otherwise; convert_file
\* passes the estimator's level for the input file to convert_to_flac.
C26_CopyOrReencodeByEstimate == CopyWhenLevelsMatch /\ EstimatedLevelPassed

----------------------------------------------------------------------------
(* Properties of the conversion tracking, checked under TrackSpec *)

\* should_convert said yes exactly when force is set, the output is missing,
\* the input is not in the tracking data, or the output's mtime differs from
\* the tracked one
SaidYesExactlyWhen(obs) ==
    obs.result <=> \/ force
                   \/ obs.output = None
                   \/ obs.entry = None
                   \/ Get(obs.output) # Get(obs.entry)

ShouldConvertExactly ==
    \A w \in Workers :
        /\ IsSome(wk[w].seen) => SaidYesExactlyWhen(Get(wk[w].seen))
        /\ IsSome(wk[w].later) => SaidYesExactlyWhen(Get(wk[w].later))

\* after a successful convert_file, and with the output file as the
\* conversion left it, a later should_convert without force says no
NoRedundantConversion ==
    \A w \in Workers :
        (/\ wk[w].converted
         /\ IsSome(wk[w].later)
         /\ ~force
         /\ outputs[w] = Some(ConvertedAt)) => ~Get(wk[w].later).result

\* the same, as long as the tracking file still holds the entry that the
\* conversion wrote
NoRedundantConversionWhileTracked ==
    \A w \in Workers :
        (/\ wk[w].converted
         /\ IsSome(wk[w].later)
         /\ ~force
         /\ outputs[w] = Some(ConvertedAt)
         /\ Get(wk[w].later).entry = Some(ConvertedAt)) => ~Get(wk[w].later).result

\* C24: after convert_file succeeds for a file, a later should_convert for the
\* same input and output without force returns False as long as the output
\* file still exists with unchanged mtime; should_convert returns True exactly
\* when force is set, the output is missing, the input is not in the tracking
\* data, or the output mtime differs from the tracked one.
C24_NoRedundantConversion == NoRedundantConversion /\ ShouldConvertExactly

\* C27: when several workers each complete a conversion and update the same
\* tracking file, then after all workers have finished the file holds an entry
\* for every successfully converted input, and no entry recorded before is
\* lost, under every interleaving of the loads and writes.
C27_NoEntryLost ==
    AllDone =>
        /\ tracking.state = "json"
        /\ tracking.data[0] # None
        /\ \A w \in Workers :
               (wk[w].converted \/ wk[w].tracked_before) => tracking.data[w] # None

====
